---- MODULE Spec2Model ----
(***************************************************************************)
(* A model of locktick: the process-wide registry of lock and guard        *)
(* statistics (src/src/lock_info.rs) and the adapters that drive it around *)
(* the native primitives (src/src/std.rs, parking_lot.rs, tokio.rs).       *)
(***************************************************************************)
EXTENDS Integers, Sequences, FiniteSets, TLC

\* ------------------------------------------------------------------ bounds
\* GUARD_COUNTER stops minting at MaxGuards (it is an AtomicUsize in the code).
MaxGuards == 2
\* The native guards a caller holds at one time inside poison errors.
MaxRaw == 1

\* The uses of one guard site fed to its moving averages: more than the
\* window holds.
MaxUses == 52
\* How often the fed sample may differ from the one before it.
MaxChanges == 1

Threads == {"t1", "t2"}
\* The lock objects a program constructs, in the order of their construction.
LockIds == {1, 2}
\* The values Instant::now() takes.
Instants == {0, 1}
\* The call sites of lock constructors. A call site is one call expression:
\* Mutex::new at L1, RwLock::new at L2.
LockLocs == {"L1", "L2"}
\* The call sites of guard acquisitions. A call site is one call expression,
\* so it always asks for the same kind of guard.
GuardLocs == {"g1", "g2", "g3", "g4"}
Adapters == {"std", "parking_lot", "tokio"}

\* The window of SingleSumSMA<Duration, u32, 50>.
WINDOW_SIZE == 50

VARIABLES
    adapter,        \* the backend whose locks the program uses: std, parking_lot or tokio
    LOCK_INFOS,     \* HashMap<Location, Mutex<LockInfo>>
    GUARD_COUNTER,  \* AtomicUsize
    locks,          \* the lock objects constructed so far, with their native state
    guards,         \* the LockGuards that exist
    thr,            \* position and locals of each thread or task
    now,            \* the monotonic clock read by Instant::now()
    panics,         \* the panics raised by the bookkeeping so far
    created,        \* history: how many LockInfo values were built per Location
    returned,       \* history: how many LockGuards were returned per guard site
    held            \* the registry lock and LockInfo mutexes each thread holds

vars == <<adapter, LOCK_INFOS, GUARD_COUNTER, locks, guards, thr, now, panics, created, returned, held>>

\* ----------------------------------------------------------------- helpers
EmptyMap == [k \in {} |-> 0]

MapInsert(m, k, v) == [x \in DOMAIN m \cup {k} |-> IF x = k THEN v ELSE m[x]]

MapRemove(m, k) == [x \in DOMAIN m \ {k} |-> m[x]]

\* --------------------------------------------------------- moving averages
SMA_from_zero == [samples |-> <<>>, sum |-> 0, folded |-> 0]

\* Mutant: add_sample never evicts, the average is over all samples.
SMA_add_sample_keeps_all(sma, x) ==
    [samples |-> Append(sma.samples, x),
     sum |-> sma.sum + x,
     folded |-> sma.folded + 1]

\* add_sample: the oldest sample leaves once the window is full.
SMA_add_sample(sma, x) ==
    IF Len(sma.samples) < WINDOW_SIZE
    THEN [samples |-> Append(sma.samples, x),
          sum |-> sma.sum + x,
          folded |-> sma.folded + 1]
    ELSE [samples |-> Append(Tail(sma.samples), x),
          sum |-> sma.sum - Head(sma.samples) + x,
          folded |-> sma.folded + 1]

SMA_get_average(sma) ==
    IF Len(sma.samples) = 0 THEN 0 ELSE sma.sum \div Len(sma.samples)

\* ---------------------------------------------------------------- GuardInfo
GuardInfo_new(kind, location) ==
    [kind |-> kind,
     location |-> location,
     num_uses |-> 0,
     active_uses |-> EmptyMap,
     waiting_tasks |-> EmptyMap,
     avg_wait_time |-> SMA_from_zero,
     max_wait_time |-> 0,
     avg_duration |-> SMA_from_zero,
     max_duration |-> 0]

num_active_uses(gi) == Cardinality(DOMAIN gi.active_uses)

num_waiting(gi) == Cardinality(DOMAIN gi.waiting_tasks)

\* Mutant: the entry is overwritten with a new GuardInfo on every use.
entry_or_insert_fresh(known_guards, guard_location, guard_kind) ==
    MapInsert(known_guards, guard_location, GuardInfo_new(guard_kind, guard_location))

\* known_guards.entry(guard_location).or_insert_with(|| GuardInfo::new(..))
entry_or_insert(known_guards, guard_location, guard_kind) ==
    IF guard_location \in DOMAIN known_guards
    THEN known_guards
    ELSE MapInsert(known_guards, guard_location, GuardInfo_new(guard_kind, guard_location))

\* Mutant: the counter is read but not advanced.
fetch_add_stuck(counter) == counter

\* GUARD_COUNTER.fetch_add(1, Ordering::Relaxed): the value to store back.
fetch_add(counter) == counter + 1

\* ----------------------------------------------------------------- registry
LockInfo_new(kind, location) ==
    [kind |-> kind, location |-> location, known_guards |-> EmptyMap]

\* Mutant: register inserts without looking for an existing entry.
register_always_vacant(infos, location) == TRUE

\* The match on .entry(location) in LockInfo::register: Entry::Vacant or not.
register_vacant(infos, location) == location \notin DOMAIN infos

\* Mutant: register returns the Location without filling the entry.
register_forgets(infos, location, kind) == infos

\* Mutant: the last registration wins, an occupied entry takes the kind of
\* the new call.
register_last_kind(infos, location, kind) ==
    IF register_vacant(infos, location)
    THEN MapInsert(infos, location, LockInfo_new(kind, location))
    ELSE [infos EXCEPT ![location].kind = kind]

\* LockInfo::register, the part under LOCK_INFOS.write(): the entry is filled
\* only when vacant.
register(infos, location, kind) ==
    IF register_vacant(infos, location)
    THEN MapInsert(infos, location, LockInfo_new(kind, location))
    ELSE infos

\* What register returns: the given Location, or that of the occupied entry.
register_result(infos, location) ==
    IF location \in DOMAIN infos THEN infos[location].location ELSE location

\* Mutant: LockGuard::new forgets num_uses += 1.
LockGuard_new_no_count(infos, lock_location, guard_location, guard_kind, guard_idx, wait_time, instant) ==
    LET known == entry_or_insert(infos[lock_location].known_guards, guard_location, guard_kind)
        gi == known[guard_location]
        gi2 == [gi EXCEPT
                  !.avg_wait_time = SMA_add_sample(@, wait_time),
                  !.max_wait_time = IF wait_time > @ THEN wait_time ELSE @,
                  !.active_uses = MapInsert(@, guard_idx, instant)]
    IN [infos EXCEPT ![lock_location].known_guards = MapInsert(known, guard_location, gi2)]

\* The body of LockGuard::new under lock_info.lock(), for a registered lock.
LockGuard_new(infos, lock_location, guard_location, guard_kind, guard_idx, wait_time, instant) ==
    LET known == entry_or_insert(infos[lock_location].known_guards, guard_location, guard_kind)
        gi == known[guard_location]
        gi2 == [gi EXCEPT
                  !.num_uses = @ + 1,
                  !.avg_wait_time = SMA_add_sample(@, wait_time),
                  !.max_wait_time = IF wait_time > @ THEN wait_time ELSE @,
                  !.active_uses = MapInsert(@, guard_idx, instant)]
    IN [infos EXCEPT ![lock_location].known_guards = MapInsert(known, guard_location, gi2)]

\* Mutant: from_wait_guard folds no wait sample.
from_wait_guard_no_sample(infos, lock_location, guard_location, guard_kind, guard_index, wait_time, instant) ==
    LET known == entry_or_insert(infos[lock_location].known_guards, guard_location, guard_kind)
        gi == known[guard_location]
        gi2 == [gi EXCEPT
                  !.waiting_tasks = MapRemove(@, guard_index),
                  !.num_uses = @ + 1,
                  !.active_uses = MapInsert(@, guard_index, instant)]
    IN [infos EXCEPT ![lock_location].known_guards = MapInsert(known, guard_location, gi2)]

\* Mutant: from_wait_guard leaves the waiting entry in place.
from_wait_guard_keep_waiting(infos, lock_location, guard_location, guard_kind, guard_index, wait_time, instant) ==
    LET known == entry_or_insert(infos[lock_location].known_guards, guard_location, guard_kind)
        gi == known[guard_location]
        gi2 == [gi EXCEPT
                  !.num_uses = @ + 1,
                  !.avg_wait_time = SMA_add_sample(@, wait_time),
                  !.max_wait_time = IF wait_time > @ THEN wait_time ELSE @,
                  !.active_uses = MapInsert(@, guard_index, instant)]
    IN [infos EXCEPT ![lock_location].known_guards = MapInsert(known, guard_location, gi2)]

\* Mutant: from_wait_guard forgets num_uses += 1.
from_wait_guard_no_count(infos, lock_location, guard_location, guard_kind, guard_index, wait_time, instant) ==
    LET known == entry_or_insert(infos[lock_location].known_guards, guard_location, guard_kind)
        gi == known[guard_location]
        gi2 == [gi EXCEPT
                  !.waiting_tasks = MapRemove(@, guard_index),
                  !.avg_wait_time = SMA_add_sample(@, wait_time),
                  !.max_wait_time = IF wait_time > @ THEN wait_time ELSE @,
                  !.active_uses = MapInsert(@, guard_index, instant)]
    IN [infos EXCEPT ![lock_location].known_guards = MapInsert(known, guard_location, gi2)]

\* The body of LockGuard::from_wait_guard under lock_info.lock().
from_wait_guard(infos, lock_location, guard_location, guard_kind, guard_index, wait_time, instant) ==
    LET known == entry_or_insert(infos[lock_location].known_guards, guard_location, guard_kind)
        gi == known[guard_location]
        gi2 == [gi EXCEPT
                  !.waiting_tasks = MapRemove(@, guard_index),
                  !.num_uses = @ + 1,
                  !.avg_wait_time = SMA_add_sample(@, wait_time),
                  !.max_wait_time = IF wait_time > @ THEN wait_time ELSE @,
                  !.active_uses = MapInsert(@, guard_index, instant)]
    IN [infos EXCEPT ![lock_location].known_guards = MapInsert(known, guard_location, gi2)]

\* The body of WaitGuard::new under lock_info.lock().
WaitGuard_new(infos, lock_location, guard_location, guard_kind, wait_index, instant) ==
    LET known == entry_or_insert(infos[lock_location].known_guards, guard_location, guard_kind)
        gi == known[guard_location]
        gi2 == [gi EXCEPT !.waiting_tasks = MapInsert(@, wait_index, instant)]
    IN [infos EXCEPT ![lock_location].known_guards = MapInsert(known, guard_location, gi2)]

\* Mutant: the drop of a WaitGuard leaves its waiting entry behind.
WaitGuard_drop_skip(infos, lock_location, guard_location, wait_index) == infos

\* Mutant: the drop of a WaitGuard takes the GuardInfo out of known_guards
\* when it was never used and nobody else waits in it.
WaitGuard_drop_prunes(infos, lock_location, guard_location, wait_index) ==
    IF lock_location \in DOMAIN infos
    THEN IF guard_location \in DOMAIN infos[lock_location].known_guards
         THEN LET gi == infos[lock_location].known_guards[guard_location]
              IN IF gi.num_uses = 0 /\ DOMAIN gi.waiting_tasks \subseteq {wait_index}
                 THEN [infos EXCEPT ![lock_location].known_guards =
                                        MapRemove(@, guard_location)]
                 ELSE [infos EXCEPT ![lock_location].known_guards[guard_location].waiting_tasks =
                                        MapRemove(@, wait_index)]
         ELSE infos
    ELSE infos

\* impl Drop for WaitGuard, for a guard that was not finished: a missing
\* LockInfo or GuardInfo is skipped.
WaitGuard_drop(infos, lock_location, guard_location, wait_index) ==
    IF lock_location \in DOMAIN infos
    THEN IF guard_location \in DOMAIN infos[lock_location].known_guards
         THEN [infos EXCEPT ![lock_location].known_guards[guard_location].waiting_tasks =
                                MapRemove(@, wait_index)]
         ELSE infos
    ELSE infos

\* impl Drop for LockGuard panics when the GuardInfo or the id is missing
\* (the two unwrap() calls); a missing LockInfo is skipped.
LockGuard_drop_panics(infos, lock_location, guard_location, guard_index) ==
    /\ lock_location \in DOMAIN infos
    /\ \/ guard_location \notin DOMAIN infos[lock_location].known_guards
       \/ guard_index \notin
              DOMAIN infos[lock_location].known_guards[guard_location].active_uses

\* Mutant: the drop of a LockGuard empties active_uses of its GuardInfo.
LockGuard_drop_clear(infos, lock_location, guard_location, guard_index, timestamp) ==
    IF lock_location \notin DOMAIN infos
    THEN infos
    ELSE IF LockGuard_drop_panics(infos, lock_location, guard_location, guard_index)
    THEN infos
    ELSE LET gi == infos[lock_location].known_guards[guard_location]
             duration == timestamp - gi.active_uses[guard_index]
             gi2 == [gi EXCEPT
                       !.active_uses = EmptyMap,
                       !.avg_duration = SMA_add_sample(@, duration),
                       !.max_duration = IF duration > @ THEN duration ELSE @]
         IN [infos EXCEPT ![lock_location].known_guards[guard_location] = gi2]

\* Mutant: the drop of a LockGuard takes its use back out of num_uses.
LockGuard_drop_uncount(infos, lock_location, guard_location, guard_index, timestamp) ==
    IF lock_location \notin DOMAIN infos
    THEN infos
    ELSE IF LockGuard_drop_panics(infos, lock_location, guard_location, guard_index)
    THEN infos
    ELSE LET gi == infos[lock_location].known_guards[guard_location]
             duration == timestamp - gi.active_uses[guard_index]
             gi2 == [gi EXCEPT
                       !.num_uses = @ - 1,
                       !.active_uses = MapRemove(@, guard_index),
                       !.avg_duration = SMA_add_sample(@, duration),
                       !.max_duration = IF duration > @ THEN duration ELSE @]
         IN [infos EXCEPT ![lock_location].known_guards[guard_location] = gi2]

\* Mutant: max_duration follows the last hold duration.
LockGuard_drop_last_max(infos, lock_location, guard_location, guard_index, timestamp) ==
    IF lock_location \notin DOMAIN infos
    THEN infos
    ELSE IF LockGuard_drop_panics(infos, lock_location, guard_location, guard_index)
    THEN infos
    ELSE LET gi == infos[lock_location].known_guards[guard_location]
             duration == timestamp - gi.active_uses[guard_index]
             gi2 == [gi EXCEPT
                       !.active_uses = MapRemove(@, guard_index),
                       !.avg_duration = SMA_add_sample(@, duration),
                       !.max_duration = duration]
         IN [infos EXCEPT ![lock_location].known_guards[guard_location] = gi2]

\* Mutant: the drop of a LockGuard also empties waiting_tasks of its GuardInfo.
LockGuard_drop_wipes_waiting(infos, lock_location, guard_location, guard_index, timestamp) ==
    IF lock_location \notin DOMAIN infos
    THEN infos
    ELSE IF LockGuard_drop_panics(infos, lock_location, guard_location, guard_index)
    THEN infos
    ELSE LET gi == infos[lock_location].known_guards[guard_location]
             duration == timestamp - gi.active_uses[guard_index]
             gi2 == [gi EXCEPT
                       !.active_uses = MapRemove(@, guard_index),
                       !.waiting_tasks = EmptyMap,
                       !.avg_duration = SMA_add_sample(@, duration),
                       !.max_duration = IF duration > @ THEN duration ELSE @]
         IN [infos EXCEPT ![lock_location].known_guards[guard_location] = gi2]

\* impl Drop for LockGuard: the entry leaves active_uses and its age is folded
\* into the hold statistics.
LockGuard_drop(infos, lock_location, guard_location, guard_index, timestamp) ==
    IF lock_location \notin DOMAIN infos
    THEN infos
    ELSE IF LockGuard_drop_panics(infos, lock_location, guard_location, guard_index)
    THEN infos
    ELSE LET gi == infos[lock_location].known_guards[guard_location]
             duration == timestamp - gi.active_uses[guard_index]
             gi2 == [gi EXCEPT
                       !.active_uses = MapRemove(@, guard_index),
                       !.avg_duration = SMA_add_sample(@, duration),
                       !.max_duration = IF duration > @ THEN duration ELSE @]
         IN [infos EXCEPT ![lock_location].known_guards[guard_location] = gi2]

\* ---------------------------------------------------------- native locks
\* The kind passed to register by the constructor called at a lock call site.
LockKindAt(location) == IF location = "L1" THEN "Mutex" ELSE "RwLock"

\* guard_kind of the method called at a guard call site: lock() and
\* try_lock() pass GuardKind::Lock, read() and try_read() GuardKind::Read,
\* write() and try_write() GuardKind::Write.
KindAt(guard_location) ==
    CASE guard_location = "g1" -> "Lock"
      [] guard_location = "g2" -> "Read"
      [] guard_location = "g3" -> "Read"
      [] guard_location = "g4" -> "Write"

\* The guard kinds each lock kind hands out (Mutex::lock; RwLock::read, write).
ModesOf(kind) == IF kind = "Mutex" THEN {"Lock"} ELSE {"Read", "Write"}

\* try_lock / try_read / try_write of the wrapped primitive succeed when the
\* lock is free for that mode.
CanAcquire(l, mode) ==
    IF mode = "Read" THEN ~l.writer ELSE ~l.writer /\ l.readers = 0

NativeAcquire(l, mode) ==
    IF mode = "Read" THEN [l EXCEPT !.readers = @ + 1] ELSE [l EXCEPT !.writer = TRUE]

\* The native guard is dropped; a std guard dropped by a panicking thread
\* poisons its lock (read guards never do).
NativeRelease(l, mode, panicking) ==
    LET rel == IF mode = "Read" THEN [l EXCEPT !.readers = @ - 1]
                                ELSE [l EXCEPT !.writer = FALSE]
    IN IF panicking /\ l.adapter = "std" /\ mode # "Read"
       THEN [rel EXCEPT !.poisoned = TRUE]
       ELSE rel

\* ------------------------------------------------------------------- state
Idle == [pc |-> "idle"]

Init ==
    /\ adapter \in Adapters
    /\ LOCK_INFOS = EmptyMap
    /\ GUARD_COUNTER = 0
    /\ locks = <<>>
    /\ guards = {}
    /\ thr = [t \in Threads |-> Idle]
    /\ now = 0
    /\ panics = {}
    /\ created = [l \in LockLocs |-> 0]
    /\ returned = [s \in LockLocs \X GuardLocs |-> 0]
    /\ held = [t \in Threads |-> {}]

\* Ids still to be minted by calls that hold a native guard but have not
\* reached LockGuard::new.
PendingMints ==
    Cardinality({t \in Threads : thr[t].pc = "acquired" /\ "guard_idx" \notin DOMAIN thr[t]})

RECURSIVE SumRaw(_)
SumRaw(ls) == IF ls = <<>> THEN 0 ELSE Head(ls).raw + SumRaw(Tail(ls))

Registering == Cardinality({t \in Threads : thr[t].pc = "registering"})

\* ------------------------------------------------------ bookkeeping locks
\* LOCK_INFOS is an RwLock and every LockInfo sits in a Mutex of its own.
\* held[t] has "read" or "write" for the registry lock and the Location of
\* each LockInfo whose mutex t holds.

\* RwLock::read returns when no writer holds the registry.
CanRead(h) == \A u \in Threads : "write" \notin h[u]

\* RwLock::write returns when nobody holds the registry.
CanWrite(h) == \A u \in Threads : h[u] \cap {"read", "write"} = {}

\* Mutant: the mutex of a LockInfo is handed out while it is held.
CanLockInfo_free(h, location) == TRUE

\* Mutant: one mutex stands for all LockInfos.
CanLockInfo_global(h, location) == \A u \in Threads : h[u] \cap LockLocs = {}

\* Mutex::lock of a LockInfo returns when nobody holds it.
CanLockInfo(h, location) == \A u \in Threads : location \notin h[u]

Acquire(h, t, l) == [h EXCEPT ![t] = @ \cup {l}]

\* Mutant: the read guard of the registry outlives the bookkeeping.
ReleaseAll_keeps_read(h, t) == [h EXCEPT ![t] = @ \cap {"read"}]

\* The guards of the registry and of the LockInfo are temporaries of the
\* `if let` (or `match`) statement and are dropped at its end.
ReleaseAll(h, t) == [h EXCEPT ![t] = {}]

\* History: every registry state that existed during a lock_snapshots call
\* is noted in the record of the caller, when the call keeps this history.
Observe(th, infos) ==
    [u \in Threads |->
        IF th[u].pc = "snapshot" /\ th[u].seen # {}
        THEN [th[u] EXCEPT !.seen = @ \cup {infos}]
        ELSE th[u]]

\* ----------------------------------------------------------------- actions
\* Instant::now() advances.
Tick ==
    /\ now + 1 \in Instants
    /\ now' = now + 1
    /\ UNCHANGED <<adapter, held, LOCK_INFOS, GUARD_COUNTER, locks, guards, thr, panics, created, returned>>

\* Mutex::new / RwLock::new up to call_location() inside register.
RegisterCall(t, location, kind) ==
    /\ thr[t].pc = "idle"
    /\ Len(locks) + Registering < Cardinality(LockIds)
    /\ thr' = [thr EXCEPT ![t] = [pc |-> "registering", location |-> location, kind |-> kind]]
    /\ UNCHANGED <<adapter, held, LOCK_INFOS, GUARD_COUNTER, locks, guards, now, panics, created, returned>>

\* The write-locked part of register, and the lock object built around the
\* Location it returns.
RegisterInsert(t) ==
    /\ thr[t].pc = "registering"
    /\ CanWrite(held)
    /\ LOCK_INFOS' = register(LOCK_INFOS, thr[t].location, thr[t].kind)
    /\ created' = [created EXCEPT ![thr[t].location] =
                      IF register_vacant(LOCK_INFOS, thr[t].location) THEN @ + 1 ELSE @]
    /\ locks' = Append(locks, [location |-> register_result(LOCK_INFOS, thr[t].location),
                               kind |-> thr[t].kind,
                               adapter |-> adapter,
                               writer |-> FALSE,
                               readers |-> 0,
                               raw |-> 0,
                               poisoned |-> FALSE])
    /\ thr' = Observe([thr EXCEPT ![t] = Idle], LOCK_INFOS')
    /\ UNCHANGED <<adapter, held, GUARD_COUNTER, guards, now, panics, returned>>

\* lock/read/write or try_lock/try_read/try_write whose native try succeeds on
\* a lock that is not poisoned: the caller now holds the native guard and
\* goes on to LockGuard::new.
FastAcquire(t, i, guard_location) ==
    /\ thr[t].pc = "idle"
    /\ i \in 1..Len(locks)
    /\ KindAt(guard_location) \in ModesOf(locks[i].kind)
    /\ CanAcquire(locks[i], KindAt(guard_location))
    /\ ~locks[i].poisoned
    /\ GUARD_COUNTER + PendingMints < MaxGuards
    /\ locks' = [locks EXCEPT ![i] = NativeAcquire(@, KindAt(guard_location))]
    /\ thr' = [thr EXCEPT ![t] = [pc |-> "acquired", inst |-> i,
                                  guard_location |-> guard_location,
                                  guard_kind |-> KindAt(guard_location),
                                  timestamp |-> now]]
    /\ UNCHANGED <<adapter, held, LOCK_INFOS, GUARD_COUNTER, guards, now, panics, created, returned>>

\* std only: the native try finds the lock free but poisoned; the native guard
\* travels to the caller inside the error, and no bookkeeping runs.
PoisonedFast(t, i, guard_location) ==
    /\ thr[t].pc = "idle"
    /\ i \in 1..Len(locks)
    /\ KindAt(guard_location) \in ModesOf(locks[i].kind)
    /\ CanAcquire(locks[i], KindAt(guard_location))
    /\ locks[i].poisoned
    /\ SumRaw(locks) < MaxRaw
    /\ locks' = [locks EXCEPT ![i] =
                    [NativeAcquire(@, KindAt(guard_location)) EXCEPT !.raw = @ + 1]]
    /\ UNCHANGED <<adapter, held, LOCK_INFOS, GUARD_COUNTER, guards, thr, now, panics, created, returned>>

\* Mutant: a failed try registers a waiter as the blocking calls do.
TryFail_waits(t, i, guard_location) ==
    /\ thr[t].pc = "idle"
    /\ i \in 1..Len(locks)
    /\ KindAt(guard_location) \in ModesOf(locks[i].kind)
    /\ ~CanAcquire(locks[i], KindAt(guard_location))
    /\ GUARD_COUNTER + PendingMints < MaxGuards
    /\ GUARD_COUNTER' = fetch_add(GUARD_COUNTER)
    /\ LOCK_INFOS' = IF locks[i].location \in DOMAIN LOCK_INFOS
                     THEN WaitGuard_new(LOCK_INFOS, locks[i].location, guard_location,
                                        KindAt(guard_location), GUARD_COUNTER, now)
                     ELSE LOCK_INFOS
    /\ thr' = [thr EXCEPT ![t] = [pc |-> "try_failed"]]
    /\ UNCHANGED <<adapter, held, locks, guards, now, panics, created, returned>>

\* try_lock/try_read/try_write on a held lock: the native try fails and the
\* `?` hands the native failure to the caller before any bookkeeping.
TryFail(t, i, guard_location) ==
    /\ thr[t].pc = "idle"
    /\ i \in 1..Len(locks)
    /\ KindAt(guard_location) \in ModesOf(locks[i].kind)
    /\ ~CanAcquire(locks[i], KindAt(guard_location))
    /\ thr' = [thr EXCEPT ![t] = [pc |-> "try_failed"]]
    /\ UNCHANGED <<adapter, held, LOCK_INFOS, GUARD_COUNTER, locks, guards, now, panics, created, returned>>

\* The caller takes the failure of its try call and goes on.
TryReturn(t) ==
    /\ thr[t].pc = "try_failed"
    /\ thr' = [thr EXCEPT ![t] = Idle]
    /\ UNCHANGED <<adapter, held, LOCK_INFOS, GUARD_COUNTER, locks, guards, now, panics, created, returned>>

\* lock/read/write on a held lock: WaitGuard::new, then the caller blocks (or
\* its future is suspended) in the native acquisition.
StartWait(t, i, guard_location) ==
    /\ thr[t].pc = "idle"
    /\ i \in 1..Len(locks)
    /\ KindAt(guard_location) \in ModesOf(locks[i].kind)
    /\ ~CanAcquire(locks[i], KindAt(guard_location))
    /\ GUARD_COUNTER + PendingMints < MaxGuards
    /\ GUARD_COUNTER' = fetch_add(GUARD_COUNTER)
    /\ IF locks[i].location \in DOMAIN LOCK_INFOS
       THEN /\ LOCK_INFOS' = WaitGuard_new(LOCK_INFOS, locks[i].location, guard_location,
                                           KindAt(guard_location), GUARD_COUNTER, now)
            /\ thr' = Observe([thr EXCEPT ![t] = [pc |-> "waiting", inst |-> i,
                                                  guard_location |-> guard_location,
                                                  guard_kind |-> KindAt(guard_location),
                                                  timestamp |-> now,
                                                  wait_index |-> GUARD_COUNTER]],
                               LOCK_INFOS')
            /\ UNCHANGED panics
       ELSE /\ panics' = panics \cup {"unreachable"}
            /\ UNCHANGED <<LOCK_INFOS, thr>>
    /\ UNCHANGED <<adapter, held, locks, guards, now, created, returned>>

\* Mutant: the poison error of the blocking acquisition is unwrapped into
\* its guard and the call goes on as after a clean acquisition.
WaitAcquire_ignores_poison(t) ==
    /\ thr[t].pc = "waiting"
    /\ CanAcquire(locks[thr[t].inst], thr[t].guard_kind)
    /\ locks' = [locks EXCEPT ![thr[t].inst] = NativeAcquire(@, thr[t].guard_kind)]
    /\ thr' = [thr EXCEPT ![t].pc = "wait_acquired"]
    /\ UNCHANGED <<adapter, held, LOCK_INFOS, GUARD_COUNTER, guards, now, panics, created, returned>>

\* The blocked native lock()/read()/write() returns. std reports poisoning
\* here: the `?` returns the error (the native guard inside it) and the
\* WaitGuard is dropped on the way out.
WaitAcquire(t) ==
    /\ thr[t].pc = "waiting"
    /\ CanAcquire(locks[thr[t].inst], thr[t].guard_kind)
    /\ IF locks[thr[t].inst].poisoned
       THEN /\ locks' = [locks EXCEPT ![thr[t].inst] =
                            [NativeAcquire(@, thr[t].guard_kind) EXCEPT !.raw = @ + 1]]
            /\ LOCK_INFOS' = WaitGuard_drop(LOCK_INFOS, locks[thr[t].inst].location,
                                            thr[t].guard_location, thr[t].wait_index)
            /\ thr' = Observe([thr EXCEPT ![t] = Idle], LOCK_INFOS')
       ELSE /\ locks' = [locks EXCEPT ![thr[t].inst] = NativeAcquire(@, thr[t].guard_kind)]
            /\ thr' = [thr EXCEPT ![t].pc = "wait_acquired"]
            /\ UNCHANGED LOCK_INFOS
    /\ UNCHANGED <<adapter, held, GUARD_COUNTER, guards, now, panics, created, returned>>

\* Mutant: the conversion removes the waiting entry in one critical section
\* and inserts the active entry in a second one.
FromWaitGuard_two_sections(t) ==
    /\ thr[t].pc = "wait_acquired"
    /\ LET l == locks[thr[t].inst] IN
       IF thr[t].wait_index \in
              DOMAIN LOCK_INFOS[l.location].known_guards[thr[t].guard_location].waiting_tasks
       THEN /\ LOCK_INFOS' = WaitGuard_drop(LOCK_INFOS, l.location, thr[t].guard_location,
                                            thr[t].wait_index)
            /\ thr' = Observe(thr, LOCK_INFOS')
            /\ UNCHANGED <<guards, returned>>
       ELSE /\ LOCK_INFOS' = from_wait_guard(LOCK_INFOS, l.location, thr[t].guard_location,
                                             thr[t].guard_kind, thr[t].wait_index,
                                             now - thr[t].timestamp, now)
            /\ guards' = guards \cup {[guard_index |-> thr[t].wait_index,
                                       lock_location |-> l.location,
                                       guard_location |-> thr[t].guard_location,
                                       inst |-> thr[t].inst,
                                       mode |-> thr[t].guard_kind]}
            /\ returned' = [returned EXCEPT ![<<l.location, thr[t].guard_location>>] = @ + 1]
            /\ thr' = Observe([thr EXCEPT ![t] = Idle], LOCK_INFOS')
    /\ UNCHANGED <<adapter, held, GUARD_COUNTER, locks, panics, now, created>>

\* LockGuard::from_wait_guard and the return of the LockGuard to the caller.
FromWaitGuard(t) ==
    /\ thr[t].pc = "wait_acquired"
    /\ LET l == locks[thr[t].inst] IN
       IF l.location \in DOMAIN LOCK_INFOS
       THEN /\ LOCK_INFOS' = from_wait_guard(LOCK_INFOS, l.location, thr[t].guard_location,
                                             thr[t].guard_kind, thr[t].wait_index,
                                             now - thr[t].timestamp, now)
            /\ guards' = guards \cup {[guard_index |-> thr[t].wait_index,
                                       lock_location |-> l.location,
                                       guard_location |-> thr[t].guard_location,
                                       inst |-> thr[t].inst,
                                       mode |-> thr[t].guard_kind]}
            /\ returned' = [returned EXCEPT ![<<l.location, thr[t].guard_location>>] = @ + 1]
            /\ UNCHANGED <<locks, panics>>
       ELSE /\ panics' = panics \cup {"unreachable"}
            /\ locks' = [locks EXCEPT ![thr[t].inst] =
                            NativeRelease(@, thr[t].guard_kind, TRUE)]
            /\ UNCHANGED <<LOCK_INFOS, guards, returned>>
    /\ thr' = Observe([thr EXCEPT ![t] = Idle], LOCK_INFOS')
    /\ UNCHANGED <<adapter, held, GUARD_COUNTER, now, created>>

\* tokio only: the future of lock()/read()/write() is dropped while it is
\* suspended in the native acquisition; its WaitGuard is dropped with it.
Cancel(t) ==
    /\ thr[t].pc = "waiting"
    /\ adapter = "tokio"
    /\ LOCK_INFOS' = WaitGuard_drop(LOCK_INFOS, locks[thr[t].inst].location,
                                    thr[t].guard_location, thr[t].wait_index)
    /\ thr' = Observe([thr EXCEPT ![t] = Idle], LOCK_INFOS')
    /\ UNCHANGED <<adapter, held, GUARD_COUNTER, locks, guards, now, panics, created, returned>>

\* Mutant: LockGuard::new hands the guard out without accounting when the
\* LockInfo is missing.
LockGuardNew_lenient(t) ==
    /\ thr[t].pc = "acquired"
    /\ LET l == locks[thr[t].inst] IN
       /\ GUARD_COUNTER' = fetch_add(GUARD_COUNTER)
       /\ LOCK_INFOS' = IF l.location \in DOMAIN LOCK_INFOS
                        THEN LockGuard_new(LOCK_INFOS, l.location, thr[t].guard_location,
                                           thr[t].guard_kind, GUARD_COUNTER,
                                           now - thr[t].timestamp, now)
                        ELSE LOCK_INFOS
       /\ guards' = guards \cup {[guard_index |-> GUARD_COUNTER,
                                  lock_location |-> l.location,
                                  guard_location |-> thr[t].guard_location,
                                  inst |-> thr[t].inst,
                                  mode |-> thr[t].guard_kind]}
       /\ returned' = [returned EXCEPT ![<<l.location, thr[t].guard_location>>] = @ + 1]
       /\ UNCHANGED <<locks, panics>>
    /\ thr' = Observe([thr EXCEPT ![t] = Idle], LOCK_INFOS')
    /\ UNCHANGED <<adapter, held, now, created>>

\* LockGuard::new after a successful native try, and the return of the
\* LockGuard to the caller.
LockGuardNew(t) ==
    /\ thr[t].pc = "acquired"
    /\ LET l == locks[thr[t].inst] IN
       IF l.location \in DOMAIN LOCK_INFOS
       THEN /\ GUARD_COUNTER' = fetch_add(GUARD_COUNTER)
            /\ LOCK_INFOS' = LockGuard_new(LOCK_INFOS, l.location, thr[t].guard_location,
                                           thr[t].guard_kind, GUARD_COUNTER,
                                           now - thr[t].timestamp, now)
            /\ guards' = guards \cup {[guard_index |-> GUARD_COUNTER,
                                       lock_location |-> l.location,
                                       guard_location |-> thr[t].guard_location,
                                       inst |-> thr[t].inst,
                                       mode |-> thr[t].guard_kind]}
            /\ returned' = [returned EXCEPT ![<<l.location, thr[t].guard_location>>] = @ + 1]
            /\ UNCHANGED <<locks, panics>>
       ELSE /\ panics' = panics \cup {"unreachable"}
            /\ locks' = [locks EXCEPT ![thr[t].inst] =
                            NativeRelease(@, thr[t].guard_kind, TRUE)]
            /\ UNCHANGED <<LOCK_INFOS, GUARD_COUNTER, guards, returned>>
    /\ thr' = Observe([thr EXCEPT ![t] = Idle], LOCK_INFOS')
    /\ UNCHANGED <<adapter, held, now, created>>

\* A LockGuard is dropped by a thread that is not inside a call: the Drop impl
\* runs, then the native guard it wraps is dropped. panicking: the drop
\* happens while the thread unwinds.
DropGuard(t, g, panicking) ==
    /\ thr[t].pc = "idle"
    /\ g \in guards
    /\ LOCK_INFOS' = LockGuard_drop(LOCK_INFOS, g.lock_location, g.guard_location,
                                    g.guard_index, now)
    /\ panics' = IF LockGuard_drop_panics(LOCK_INFOS, g.lock_location, g.guard_location,
                                          g.guard_index)
                 THEN panics \cup {"unwrap"} ELSE panics
    /\ locks' = [locks EXCEPT ![g.inst] = NativeRelease(@, g.mode, panicking)]
    /\ guards' = guards \ {g}
    /\ thr' = Observe(thr, LOCK_INFOS')
    /\ UNCHANGED <<adapter, held, GUARD_COUNTER, now, created, returned>>

\* The caller drops the native guard it received inside a poison error.
ReleaseRaw(i) ==
    /\ i \in 1..Len(locks)
    /\ locks[i].raw > 0
    /\ locks' = [locks EXCEPT ![i] =
                    [NativeRelease(@, IF @.writer THEN "Write" ELSE "Read", FALSE)
                        EXCEPT !.raw = @ - 1]]
    /\ UNCHANGED <<adapter, held, LOCK_INFOS, GUARD_COUNTER, guards, thr, now, panics, created, returned>>

LockKinds == {"Mutex", "RwLock"}

GuardKinds == {"Lock", "Read", "Write"}

Next ==
    \/ Tick
    \/ \E t \in Threads, location \in LockLocs :
           RegisterCall(t, location, LockKindAt(location))
    \/ \E t \in Threads : RegisterInsert(t)
    \/ \E t \in Threads, i \in LockIds, gl \in GuardLocs : FastAcquire(t, i, gl)
    \/ \E t \in Threads, i \in LockIds, gl \in GuardLocs : PoisonedFast(t, i, gl)
    \/ \E t \in Threads, i \in LockIds, gl \in GuardLocs : TryFail(t, i, gl)
    \/ \E t \in Threads : TryReturn(t)
    \/ \E t \in Threads, i \in LockIds, gl \in GuardLocs : StartWait(t, i, gl)
    \/ \E t \in Threads : WaitAcquire(t)
    \/ \E t \in Threads : FromWaitGuard(t)
    \/ \E t \in Threads : Cancel(t)
    \/ \E t \in Threads : LockGuardNew(t)
    \/ \E t \in Threads, g \in guards, panicking \in BOOLEAN : DropGuard(t, g, panicking)
    \/ \E i \in LockIds : ReleaseRaw(i)

Spec == Init /\ [][Next]_vars

\* ------------------------------------------------------ reading the state
Sites == LockLocs \X GuardLocs

HasGuardInfo(infos, site) ==
    /\ site[1] \in DOMAIN infos
    /\ site[2] \in DOMAIN infos[site[1]].known_guards

GuardInfoAt(infos, site) == infos[site[1]].known_guards[site[2]]

\* The entries of a guard site; none when it has no GuardInfo.
ActiveIds(infos, site) ==
    IF HasGuardInfo(infos, site) THEN DOMAIN GuardInfoAt(infos, site).active_uses ELSE {}

WaitingIds(infos, site) ==
    IF HasGuardInfo(infos, site) THEN DOMAIN GuardInfoAt(infos, site).waiting_tasks ELSE {}

NumUses(infos, site) ==
    IF HasGuardInfo(infos, site) THEN GuardInfoAt(infos, site).num_uses ELSE 0

\* The threads that own a WaitGuard: created, neither converted nor dropped.
WaitGuardOwners == {t \in Threads : thr[t].pc \in {"waiting", "wait_acquired"}}

SiteOf(t) == <<locks[thr[t].inst].location, thr[t].guard_location>>

GuardsAt(site) ==
    {g \in guards : g.lock_location = site[1] /\ g.guard_location = site[2]}

RECURSIVE SumOver(_, _)
SumOver(f, S) ==
    IF S = {} THEN 0
    ELSE LET x == CHOOSE y \in S : TRUE IN f[x] + SumOver(f, S \ {x})

\* ------------------------------------- the bookkeeping locks, step by step
\* The actions below are the operations of Spec with every acquisition of
\* the registry lock and of a LockInfo mutex as a step of its own.

\* The pcs of a thread inside a bookkeeping function that starts with
\* LOCK_INFOS.read(): LockGuard::new, WaitGuard::new, from_wait_guard, the
\* drop of a WaitGuard and the drop of a LockGuard.
ReadingPcs == {"acquired", "wait_new", "wait_acquired", "wait_drop", "drop"}

\* The Location of the lock the bookkeeping of t is about.
OpLocation(t) ==
    IF thr[t].pc = "drop" THEN thr[t].g.lock_location ELSE locks[thr[t].inst].location

\* Mutant: register locks the LockInfo of its Location first and asks for
\* the registry afterwards.
SyncRegisterLock_info_first(t) ==
    /\ thr[t].pc = "registering"
    /\ IF held[t] = {}
       THEN /\ CanLockInfo(held, thr[t].location)
            /\ held' = Acquire(held, t, thr[t].location)
       ELSE /\ held[t] = {thr[t].location}
            /\ \A u \in Threads \ {t} : held[u] \cap {"read", "write"} = {}
            /\ held' = [held EXCEPT ![t] = {"write"}]
    /\ UNCHANGED <<adapter, LOCK_INFOS, GUARD_COUNTER, locks, guards, thr, now, panics, created, returned>>

\* LockInfo::register: LOCK_INFOS.write() returns.
SyncRegisterLock(t) ==
    /\ thr[t].pc = "registering"
    /\ held[t] = {}
    /\ CanWrite(held)
    /\ held' = Acquire(held, t, "write")
    /\ UNCHANGED <<adapter, LOCK_INFOS, GUARD_COUNTER, locks, guards, thr, now, panics, created, returned>>

\* LockInfo::register under the write lock: the entry is filled when vacant;
\* when occupied the LockInfo is locked to read its Location. The lock
\* object is built around the Location returned.
SyncRegisterEntry(t) ==
    /\ thr[t].pc = "registering"
    /\ held[t] = {"write"}
    /\ register_vacant(LOCK_INFOS, thr[t].location) \/ CanLockInfo(held, thr[t].location)
    /\ LOCK_INFOS' = register(LOCK_INFOS, thr[t].location, thr[t].kind)
    /\ created' = [created EXCEPT ![thr[t].location] =
                      IF register_vacant(LOCK_INFOS, thr[t].location) THEN @ + 1 ELSE @]
    /\ locks' = Append(locks, [location |-> register_result(LOCK_INFOS, thr[t].location),
                               kind |-> thr[t].kind,
                               adapter |-> adapter,
                               writer |-> FALSE,
                               readers |-> 0,
                               raw |-> 0,
                               poisoned |-> FALSE])
    /\ held' = ReleaseAll(held, t)
    /\ thr' = Observe([thr EXCEPT ![t] = Idle], LOCK_INFOS')
    /\ UNCHANGED <<adapter, GUARD_COUNTER, guards, now, panics, returned>>

\* lock/read/write on a held lock: the native try fails and WaitGuard::new
\* starts by taking its id from GUARD_COUNTER.
SyncStartWait(t, i, guard_location) ==
    /\ thr[t].pc = "idle"
    /\ i \in 1..Len(locks)
    /\ KindAt(guard_location) \in ModesOf(locks[i].kind)
    /\ ~CanAcquire(locks[i], KindAt(guard_location))
    /\ GUARD_COUNTER + PendingMints < MaxGuards
    /\ GUARD_COUNTER' = fetch_add(GUARD_COUNTER)
    /\ thr' = [thr EXCEPT ![t] = [pc |-> "wait_new", inst |-> i,
                                  guard_location |-> guard_location,
                                  guard_kind |-> KindAt(guard_location),
                                  timestamp |-> now,
                                  wait_index |-> GUARD_COUNTER]]
    /\ UNCHANGED <<adapter, held, LOCK_INFOS, locks, guards, now, panics, created, returned>>

\* LOCK_INFOS.read() returns to a bookkeeping function, which looks up the
\* Location of its lock; LockGuard::new takes its id on finding it.
SyncRead(t) ==
    /\ thr[t].pc \in ReadingPcs
    /\ held[t] = {}
    /\ CanRead(held)
    /\ held' = Acquire(held, t, "read")
    /\ IF thr[t].pc = "acquired" /\ OpLocation(t) \in DOMAIN LOCK_INFOS
       THEN /\ GUARD_COUNTER' = fetch_add(GUARD_COUNTER)
            /\ thr' = [thr EXCEPT ![t] = [pc |-> "acquired", inst |-> thr[t].inst,
                                          guard_location |-> thr[t].guard_location,
                                          guard_kind |-> thr[t].guard_kind,
                                          timestamp |-> thr[t].timestamp,
                                          guard_idx |-> GUARD_COUNTER]]
       ELSE UNCHANGED <<GUARD_COUNTER, thr>>
    /\ UNCHANGED <<adapter, LOCK_INFOS, locks, guards, now, panics, created, returned>>

\* lock_info.lock() returns to a bookkeeping function that found its
\* LockInfo. One that did not find it ends here: unreachable!() in
\* LockGuard::new, WaitGuard::new and from_wait_guard (the native guard, if
\* the call has one, is dropped by the unwinding), nothing to do in the drops.
SyncLockInfo(t) ==
    /\ thr[t].pc \in ReadingPcs
    /\ held[t] = {"read"}
    /\ IF OpLocation(t) \in DOMAIN LOCK_INFOS
       THEN /\ CanLockInfo(held, OpLocation(t))
            /\ held' = Acquire(held, t, OpLocation(t))
            /\ UNCHANGED <<locks, thr, panics>>
       ELSE /\ held' = ReleaseAll(held, t)
            /\ panics' = IF thr[t].pc \in {"acquired", "wait_new", "wait_acquired"}
                         THEN panics \cup {"unreachable"} ELSE panics
            /\ locks' = IF thr[t].pc \in {"acquired", "wait_acquired"}
                        THEN [locks EXCEPT ![thr[t].inst] =
                                 NativeRelease(@, thr[t].guard_kind, TRUE)]
                        ELSE locks
            /\ thr' = [thr EXCEPT ![t] =
                          IF thr[t].pc = "drop"
                          THEN [pc |-> "drop_native", g |-> thr[t].g,
                                panicking |-> thr[t].panicking]
                          ELSE Idle]
    /\ UNCHANGED <<adapter, LOCK_INFOS, GUARD_COUNTER, guards, now, created, returned>>

\* LockGuard::new under the LockInfo mutex, and the return of the LockGuard.
SyncLockGuardNew(t) ==
    /\ thr[t].pc = "acquired"
    /\ held[t] = {"read", OpLocation(t)}
    /\ LOCK_INFOS' = LockGuard_new(LOCK_INFOS, OpLocation(t), thr[t].guard_location,
                                   thr[t].guard_kind, thr[t].guard_idx,
                                   now - thr[t].timestamp, now)
    /\ guards' = guards \cup {[guard_index |-> thr[t].guard_idx,
                               lock_location |-> OpLocation(t),
                               guard_location |-> thr[t].guard_location,
                               inst |-> thr[t].inst,
                               mode |-> thr[t].guard_kind]}
    /\ returned' = [returned EXCEPT ![<<OpLocation(t), thr[t].guard_location>>] = @ + 1]
    /\ held' = ReleaseAll(held, t)
    /\ thr' = Observe([thr EXCEPT ![t] = Idle], LOCK_INFOS')
    /\ UNCHANGED <<adapter, GUARD_COUNTER, locks, now, panics, created>>

\* WaitGuard::new under the LockInfo mutex; the caller then blocks (or its
\* future is suspended) in the native acquisition.
SyncWaitGuardNew(t) ==
    /\ thr[t].pc = "wait_new"
    /\ held[t] = {"read", OpLocation(t)}
    /\ LOCK_INFOS' = WaitGuard_new(LOCK_INFOS, OpLocation(t), thr[t].guard_location,
                                   thr[t].guard_kind, thr[t].wait_index, now)
    /\ held' = ReleaseAll(held, t)
    /\ thr' = Observe([thr EXCEPT ![t].pc = "waiting"], LOCK_INFOS')
    /\ UNCHANGED <<adapter, GUARD_COUNTER, locks, guards, now, panics, created, returned>>

\* The blocked native lock()/read()/write() returns: with the guard, or
\* under std with a poison error, which the `?` returns while the WaitGuard
\* is dropped.
SyncWaitAcquire(t) ==
    /\ thr[t].pc = "waiting"
    /\ CanAcquire(locks[thr[t].inst], thr[t].guard_kind)
    /\ IF locks[thr[t].inst].poisoned
       THEN /\ locks' = [locks EXCEPT ![thr[t].inst] =
                            [NativeAcquire(@, thr[t].guard_kind) EXCEPT !.raw = @ + 1]]
            /\ thr' = [thr EXCEPT ![t].pc = "wait_drop"]
       ELSE /\ locks' = [locks EXCEPT ![thr[t].inst] = NativeAcquire(@, thr[t].guard_kind)]
            /\ thr' = [thr EXCEPT ![t].pc = "wait_acquired"]
    /\ UNCHANGED <<adapter, held, LOCK_INFOS, GUARD_COUNTER, guards, now, panics, created, returned>>

\* tokio only: the suspended future is dropped, and its WaitGuard with it.
SyncCancel(t) ==
    /\ thr[t].pc = "waiting"
    /\ adapter = "tokio"
    /\ thr' = [thr EXCEPT ![t].pc = "wait_drop"]
    /\ UNCHANGED <<adapter, held, LOCK_INFOS, GUARD_COUNTER, locks, guards, now, panics, created, returned>>

\* impl Drop for WaitGuard under the LockInfo mutex.
SyncWaitGuardDrop(t) ==
    /\ thr[t].pc = "wait_drop"
    /\ held[t] = {"read", OpLocation(t)}
    /\ LOCK_INFOS' = WaitGuard_drop(LOCK_INFOS, OpLocation(t), thr[t].guard_location,
                                    thr[t].wait_index)
    /\ held' = ReleaseAll(held, t)
    /\ thr' = Observe([thr EXCEPT ![t] = Idle], LOCK_INFOS')
    /\ UNCHANGED <<adapter, GUARD_COUNTER, locks, guards, now, panics, created, returned>>

\* LockGuard::from_wait_guard under the LockInfo mutex, and the return of
\* the LockGuard.
SyncFromWaitGuard(t) ==
    /\ thr[t].pc = "wait_acquired"
    /\ held[t] = {"read", OpLocation(t)}
    /\ LOCK_INFOS' = from_wait_guard(LOCK_INFOS, OpLocation(t), thr[t].guard_location,
                                     thr[t].guard_kind, thr[t].wait_index,
                                     now - thr[t].timestamp, now)
    /\ guards' = guards \cup {[guard_index |-> thr[t].wait_index,
                               lock_location |-> OpLocation(t),
                               guard_location |-> thr[t].guard_location,
                               inst |-> thr[t].inst,
                               mode |-> thr[t].guard_kind]}
    /\ returned' = [returned EXCEPT ![<<OpLocation(t), thr[t].guard_location>>] = @ + 1]
    /\ held' = ReleaseAll(held, t)
    /\ thr' = Observe([thr EXCEPT ![t] = Idle], LOCK_INFOS')
    /\ UNCHANGED <<adapter, GUARD_COUNTER, locks, now, panics, created>>

\* Mutant: the native guard is given back as soon as the drop starts, ahead
\* of the accounting.
SyncDropStart_unlocks(t, g, panicking) ==
    /\ thr[t].pc = "idle"
    /\ g \in guards
    /\ \A u \in Threads : thr[u].pc \in {"drop", "drop_native"} => thr[u].g # g
    /\ locks' = [locks EXCEPT ![g.inst] = NativeRelease(@, g.mode, panicking)]
    /\ thr' = [thr EXCEPT ![t] = [pc |-> "drop", g |-> g, timestamp |-> now,
                                  panicking |-> panicking]]
    /\ UNCHANGED <<adapter, held, LOCK_INFOS, GUARD_COUNTER, guards, now, panics, created, returned>>

\* A LockGuard starts to be dropped: Drop::drop reads the clock.
SyncDropStart(t, g, panicking) ==
    /\ thr[t].pc = "idle"
    /\ g \in guards
    /\ \A u \in Threads : thr[u].pc \in {"drop", "drop_native"} => thr[u].g # g
    /\ thr' = [thr EXCEPT ![t] = [pc |-> "drop", g |-> g, timestamp |-> now,
                                  panicking |-> panicking]]
    /\ UNCHANGED <<adapter, held, LOCK_INFOS, GUARD_COUNTER, locks, guards, now, panics, created, returned>>

\* Mutant: the native guard is dropped at the start of Drop::drop, before
\* the accounting.
SyncLockGuardDrop_releases_first(t) ==
    /\ thr[t].pc = "drop"
    /\ held[t] = {"read", OpLocation(t)}
    /\ locks' = [locks EXCEPT ![thr[t].g.inst] =
                    NativeRelease(@, thr[t].g.mode, thr[t].panicking)]
    /\ LOCK_INFOS' = LockGuard_drop(LOCK_INFOS, thr[t].g.lock_location,
                                    thr[t].g.guard_location, thr[t].g.guard_index,
                                    thr[t].timestamp)
    /\ panics' = IF LockGuard_drop_panics(LOCK_INFOS, thr[t].g.lock_location,
                                          thr[t].g.guard_location, thr[t].g.guard_index)
                 THEN panics \cup {"unwrap"} ELSE panics
    /\ held' = ReleaseAll(held, t)
    /\ thr' = Observe([thr EXCEPT ![t] = [pc |-> "drop_native", g |-> thr[t].g,
                                          panicking |-> thr[t].panicking]], LOCK_INFOS')
    /\ UNCHANGED <<adapter, GUARD_COUNTER, guards, now, created, returned>>

\* impl Drop for LockGuard under the LockInfo mutex.
SyncLockGuardDrop(t) ==
    /\ thr[t].pc = "drop"
    /\ held[t] = {"read", OpLocation(t)}
    /\ LOCK_INFOS' = LockGuard_drop(LOCK_INFOS, thr[t].g.lock_location,
                                    thr[t].g.guard_location, thr[t].g.guard_index,
                                    thr[t].timestamp)
    /\ panics' = IF LockGuard_drop_panics(LOCK_INFOS, thr[t].g.lock_location,
                                          thr[t].g.guard_location, thr[t].g.guard_index)
                 THEN panics \cup {"unwrap"} ELSE panics
    /\ held' = ReleaseAll(held, t)
    /\ thr' = Observe([thr EXCEPT ![t] = [pc |-> "drop_native", g |-> thr[t].g,
                                          panicking |-> thr[t].panicking]], LOCK_INFOS')
    /\ UNCHANGED <<adapter, GUARD_COUNTER, locks, guards, now, created, returned>>

\* After Drop::drop the fields of the LockGuard are dropped, the native
\* guard among them.
SyncDropNative(t) ==
    /\ thr[t].pc = "drop_native"
    /\ locks' = [locks EXCEPT ![thr[t].g.inst] =
                    NativeRelease(@, thr[t].g.mode, thr[t].panicking)]
    /\ guards' = guards \ {thr[t].g}
    /\ thr' = [thr EXCEPT ![t] = Idle]
    /\ UNCHANGED <<adapter, held, LOCK_INFOS, GUARD_COUNTER, now, panics, created, returned>>

\* lock_snapshots is called. history: whether the registry states that exist
\* during the call are noted.
SnapshotCall(t, history) ==
    /\ thr[t].pc = "idle"
    /\ thr' = [thr EXCEPT ![t] = [pc |-> "snapshot", todo |-> {}, snap |-> EmptyMap,
                                  seen |-> IF history THEN {LOCK_INFOS} ELSE {}]]
    /\ UNCHANGED <<adapter, held, LOCK_INFOS, GUARD_COUNTER, locks, guards, now, panics, created, returned>>

\* lock_snapshots: LOCK_INFOS.read() returns and values() is to be walked.
SnapshotRead(t) ==
    /\ thr[t].pc = "snapshot"
    /\ held[t] = {}
    /\ CanRead(held)
    /\ held' = Acquire(held, t, "read")
    /\ thr' = [thr EXCEPT ![t].todo = DOMAIN LOCK_INFOS]
    /\ UNCHANGED <<adapter, LOCK_INFOS, GUARD_COUNTER, locks, guards, now, panics, created, returned>>

\* Mutant: the LockInfo is moved out of the registry (mem::take) instead of
\* cloned, which leaves a default one behind.
SnapshotClone_takes(t, location) ==
    /\ thr[t].pc = "snapshot"
    /\ held[t] = {"read"}
    /\ location \in thr[t].todo
    /\ CanLockInfo(held, location)
    /\ thr' = [thr EXCEPT ![t].todo = @ \ {location},
                          ![t].snap = MapInsert(@, location, LOCK_INFOS[location])]
    /\ LOCK_INFOS' = [LOCK_INFOS EXCEPT ![location].known_guards = EmptyMap]
    /\ UNCHANGED <<adapter, held, GUARD_COUNTER, locks, guards, now, panics, created, returned>>

\* Mutant: the clone of a LockInfo leaves out its known_guards.
SnapshotClone_shallow(t, location) ==
    /\ thr[t].pc = "snapshot"
    /\ held[t] = {"read"}
    /\ location \in thr[t].todo
    /\ CanLockInfo(held, location)
    /\ thr' = [thr EXCEPT ![t].todo = @ \ {location},
                          ![t].snap = MapInsert(@, location,
                                         [LOCK_INFOS[location] EXCEPT !.known_guards = EmptyMap])]
    /\ UNCHANGED <<adapter, held, LOCK_INFOS, GUARD_COUNTER, locks, guards, now, panics, created, returned>>

\* lock_snapshots, one element of values(): info.lock().unwrap().clone();
\* the mutex guard is a temporary of the closure. HashMap iterates in an
\* order of its own, so any Location not yet cloned may be next.
SnapshotClone(t, location) ==
    /\ thr[t].pc = "snapshot"
    /\ held[t] = {"read"}
    /\ location \in thr[t].todo
    /\ CanLockInfo(held, location)
    /\ thr' = [thr EXCEPT ![t].todo = @ \ {location},
                          ![t].snap = MapInsert(@, location, LOCK_INFOS[location])]
    /\ UNCHANGED <<adapter, held, LOCK_INFOS, GUARD_COUNTER, locks, guards, now, panics, created, returned>>

\* lock_snapshots: collect() is done, the read guard is dropped and the
\* vector goes to the caller.
SnapshotReturn(t) ==
    /\ thr[t].pc = "snapshot"
    /\ held[t] = {"read"}
    /\ thr[t].todo = {}
    /\ held' = ReleaseAll(held, t)
    /\ thr' = [thr EXCEPT ![t] = [pc |-> "snapshot_done", snap |-> thr[t].snap,
                                  seen |-> thr[t].seen]]
    /\ UNCHANGED <<adapter, LOCK_INFOS, GUARD_COUNTER, locks, guards, now, panics, created, returned>>

\* The caller is done with the vector.
SnapshotDone(t) ==
    /\ thr[t].pc = "snapshot_done"
    /\ thr' = [thr EXCEPT ![t] = Idle]
    /\ UNCHANGED <<adapter, held, LOCK_INFOS, GUARD_COUNTER, locks, guards, now, panics, created, returned>>

\* The steps of a call whose native try succeeds, and of the drop of a
\* LockGuard.
SyncFastSteps ==
    \/ \E t \in Threads, i \in LockIds, gl \in GuardLocs : FastAcquire(t, i, gl)
    \/ \E t \in Threads : SyncRead(t)
    \/ \E t \in Threads : SyncLockInfo(t)
    \/ \E t \in Threads : SyncLockGuardNew(t)
    \/ \E t \in Threads : SyncLockGuardDrop(t)
    \/ \E t \in Threads : SyncDropNative(t)

\* The steps of a call that has to wait for its lock.
SyncWaitSteps ==
    \/ \E t \in Threads, i \in LockIds, gl \in GuardLocs : SyncStartWait(t, i, gl)
    \/ \E t \in Threads : SyncWaitGuardNew(t)
    \/ \E t \in Threads : SyncWaitAcquire(t)
    \/ \E t \in Threads : SyncCancel(t)
    \/ \E t \in Threads : SyncWaitGuardDrop(t)
    \/ \E t \in Threads : SyncFromWaitGuard(t)

SyncRegisterSteps ==
    \/ \E t \in Threads, location \in LockLocs :
           RegisterCall(t, location, LockKindAt(location))
    \/ \E t \in Threads : SyncRegisterLock(t)
    \/ \E t \in Threads : SyncRegisterEntry(t)

\* Programs that build locks, take guards (with poisoning under std and
\* cancellation under tokio) and drop them; the clock stands still.
SyncNext ==
    \/ SyncRegisterSteps
    \/ SyncFastSteps
    \/ SyncWaitSteps
    \/ \E t \in Threads, i \in LockIds, gl \in GuardLocs : PoisonedFast(t, i, gl)
    \/ \E t \in Threads, g \in guards, panicking \in BOOLEAN : SyncDropStart(t, g, panicking)
    \/ \E i \in LockIds : ReleaseRaw(i)

SpecSync == Init /\ [][SyncNext]_vars

\* The thread that reports: it calls lock_snapshots between its other calls.
Reporters == {"t1"}

\* Programs on tokio locks that build locks, take and drop guards and take
\* snapshots of the registry, whose history is kept. The bookkeeping of the
\* other calls is one step each (it runs under the mutex of its LockInfo);
\* lock_snapshots is taken step by step, and register waits for its read
\* guard to go.
SnapInit == Init /\ adapter = "tokio"

SnapNext ==
    \/ \E t \in Threads, location \in LockLocs :
           RegisterCall(t, location, LockKindAt(location))
    \/ \E t \in Threads : RegisterInsert(t)
    \/ \E t \in Threads, i \in LockIds, gl \in GuardLocs : FastAcquire(t, i, gl)
    \/ \E t \in Threads, i \in LockIds, gl \in GuardLocs : StartWait(t, i, gl)
    \/ \E t \in Threads : WaitAcquire(t)
    \/ \E t \in Threads : FromWaitGuard(t)
    \/ \E t \in Threads : Cancel(t)
    \/ \E t \in Threads : LockGuardNew(t)
    \/ \E t \in Threads, g \in guards : DropGuard(t, g, FALSE)
    \/ \E t \in Reporters : SnapshotCall(t, TRUE)
    \/ \E t \in Threads : SnapshotRead(t)
    \/ \E t \in Threads, location \in LockLocs : SnapshotClone(t, location)
    \/ \E t \in Threads : SnapshotReturn(t)
    \/ \E t \in Threads : SnapshotDone(t)

SpecSnap == SnapInit /\ [][SnapNext]_vars

\* The steps of thread t inside the bookkeeping: each needs at most the
\* registry lock or one LockInfo mutex to go on, never a native lock.
BookkeepingStep(t) ==
    \/ SyncRegisterLock(t)
    \/ SyncRegisterEntry(t)
    \/ SyncRead(t)
    \/ SyncLockInfo(t)
    \/ SyncLockGuardNew(t)
    \/ SyncWaitGuardNew(t)
    \/ SyncWaitGuardDrop(t)
    \/ SyncFromWaitGuard(t)
    \/ SyncLockGuardDrop(t)
    \/ SyncDropNative(t)
    \/ SnapshotRead(t)
    \/ \E location \in LockLocs : SnapshotClone(t, location)
    \/ SnapshotReturn(t)

\* The programs of SpecSync, which also take snapshots of the registry.
LiveNext ==
    \/ SyncNext
    \/ \E t \in Reporters : SnapshotCall(t, FALSE)
    \/ \E t \in Threads : SnapshotRead(t)
    \/ \E t \in Threads, location \in LockLocs : SnapshotClone(t, location)
    \/ \E t \in Threads : SnapshotReturn(t)
    \/ \E t \in Threads : SnapshotDone(t)

\* Fair scheduling: a thread inside the bookkeeping runs, and a registry
\* lock or LockInfo mutex that is free again and again is granted to a
\* thread that keeps asking for it. Nothing is assumed of the program (it
\* may stop calling at any point) nor of the native locks (a guard may be
\* kept forever, a waiter may never be served).
SpecLive == Init /\ [][LiveNext]_vars /\ \A t \in Threads : SF_vars(BookkeepingStep(t))

\* ------------------------------------------------------ the test-only reset
\* clear_lock_infos (feature "test"): LOCK_INFOS.write().unwrap().clear().
\* The lock objects and the guards that exist stay as they are.
clear_lock_infos(t) ==
    /\ thr[t].pc = "idle"
    /\ CanWrite(held)
    /\ LOCK_INFOS # EmptyMap
    /\ LOCK_INFOS' = EmptyMap
    /\ UNCHANGED <<adapter, held, GUARD_COUNTER, locks, guards, thr, now, panics, created, returned>>

\* The programs of Spec, built with the feature "test", which may reset the
\* registry at any time.
ClearNext ==
    \/ Next
    \/ \E t \in Threads : clear_lock_infos(t)

SpecClear == Init /\ [][ClearNext]_vars

\* ------------------------------------------------------------ the call order
\* Every LockGuard remembers the timestamp its lock()/read()/write() call took
\* on entry (`let timestamp = Instant::now()`, before the native try).

\* LockGuard::new after a successful native try; the guard keeps the
\* timestamp of its call.
CalledLockGuardNew(t) ==
    /\ thr[t].pc = "acquired"
    /\ LET l == locks[thr[t].inst] IN
       IF l.location \in DOMAIN LOCK_INFOS
       THEN /\ GUARD_COUNTER' = fetch_add(GUARD_COUNTER)
            /\ LOCK_INFOS' = LockGuard_new(LOCK_INFOS, l.location, thr[t].guard_location,
                                           thr[t].guard_kind, GUARD_COUNTER,
                                           now - thr[t].timestamp, now)
            /\ guards' = guards \cup {[guard_index |-> GUARD_COUNTER,
                                       lock_location |-> l.location,
                                       guard_location |-> thr[t].guard_location,
                                       inst |-> thr[t].inst,
                                       mode |-> thr[t].guard_kind,
                                       timestamp |-> thr[t].timestamp]}
            /\ returned' = [returned EXCEPT ![<<l.location, thr[t].guard_location>>] = @ + 1]
            /\ UNCHANGED <<locks, panics>>
       ELSE /\ panics' = panics \cup {"unreachable"}
            /\ locks' = [locks EXCEPT ![thr[t].inst] =
                            NativeRelease(@, thr[t].guard_kind, TRUE)]
            /\ UNCHANGED <<LOCK_INFOS, GUARD_COUNTER, guards, returned>>
    /\ thr' = Observe([thr EXCEPT ![t] = Idle], LOCK_INFOS')
    /\ UNCHANGED <<adapter, held, now, created>>

\* LockGuard::from_wait_guard; the guard keeps the timestamp of its call.
CalledFromWaitGuard(t) ==
    /\ thr[t].pc = "wait_acquired"
    /\ LET l == locks[thr[t].inst] IN
       IF l.location \in DOMAIN LOCK_INFOS
       THEN /\ LOCK_INFOS' = from_wait_guard(LOCK_INFOS, l.location, thr[t].guard_location,
                                             thr[t].guard_kind, thr[t].wait_index,
                                             now - thr[t].timestamp, now)
            /\ guards' = guards \cup {[guard_index |-> thr[t].wait_index,
                                       lock_location |-> l.location,
                                       guard_location |-> thr[t].guard_location,
                                       inst |-> thr[t].inst,
                                       mode |-> thr[t].guard_kind,
                                       timestamp |-> thr[t].timestamp]}
            /\ returned' = [returned EXCEPT ![<<l.location, thr[t].guard_location>>] = @ + 1]
            /\ UNCHANGED <<locks, panics>>
       ELSE /\ panics' = panics \cup {"unreachable"}
            /\ locks' = [locks EXCEPT ![thr[t].inst] =
                            NativeRelease(@, thr[t].guard_kind, TRUE)]
            /\ UNCHANGED <<LOCK_INFOS, guards, returned>>
    /\ thr' = Observe([thr EXCEPT ![t] = Idle], LOCK_INFOS')
    /\ UNCHANGED <<adapter, held, GUARD_COUNTER, now, created>>

\* GuardInfo::active_call_indices: the keys of active_uses, sorted.
active_call_indices(gi) ==
    LET keys == DOMAIN gi.active_uses
    IN CHOOSE indices \in [1..Cardinality(keys) -> keys] :
           \A i, j \in 1..Cardinality(keys) : i < j => indices[i] < indices[j]

CalledInit == Init /\ adapter = "parking_lot"

CalledNext ==
    \/ Tick
    \/ \E t \in Threads, location \in LockLocs :
           RegisterCall(t, location, LockKindAt(location))
    \/ \E t \in Threads : RegisterInsert(t)
    \/ \E t \in Threads, i \in LockIds, gl \in GuardLocs : FastAcquire(t, i, gl)
    \/ \E t \in Threads, i \in LockIds, gl \in GuardLocs : TryFail(t, i, gl)
    \/ \E t \in Threads : TryReturn(t)
    \/ \E t \in Threads, i \in LockIds, gl \in GuardLocs : StartWait(t, i, gl)
    \/ \E t \in Threads : WaitAcquire(t)
    \/ \E t \in Threads : CalledFromWaitGuard(t)
    \/ \E t \in Threads : CalledLockGuardNew(t)
    \/ \E t \in Threads, g \in guards : DropGuard(t, g, FALSE)

SpecCalled == CalledInit /\ [][CalledNext]_vars

\* ------------------------------------------- constructors of either kind
\* Mutex::new and RwLock::new can resolve to one Location (call_location
\* takes the first frame outside the crate: both constructors called from one
\* macro invocation, or through a crate whose path contains "locktick").
KindsInit == Init /\ adapter = "parking_lot"

KindsNext ==
    \/ Tick
    \/ \E t \in Threads, location \in LockLocs, kind \in LockKinds :
           RegisterCall(t, location, kind)
    \/ \E t \in Threads : RegisterInsert(t)
    \/ \E t \in Threads, i \in LockIds, gl \in GuardLocs : FastAcquire(t, i, gl)
    \/ \E t \in Threads, i \in LockIds, gl \in GuardLocs : TryFail(t, i, gl)
    \/ \E t \in Threads : TryReturn(t)
    \/ \E t \in Threads, i \in LockIds, gl \in GuardLocs : StartWait(t, i, gl)
    \/ \E t \in Threads : WaitAcquire(t)
    \/ \E t \in Threads : FromWaitGuard(t)
    \/ \E t \in Threads : LockGuardNew(t)
    \/ \E t \in Threads, g \in guards : DropGuard(t, g, FALSE)

SpecKinds == KindsInit /\ [][KindsNext]_vars

\* ---------------------------------------- critical sections, part by part
\* The bodies of LockGuard::new, from_wait_guard and the drop of a LockGuard
\* under the mutex of the LockInfo, as two parts each: the statements up to
\* the change of the entry set, and the rest.

\* LockGuard::new: entry().or_insert_with(), num_uses += 1, add_sample and
\* the maximum.
LockGuard_new_stats(infos, lock_location, guard_location, guard_kind, wait_time) ==
    LET known == entry_or_insert(infos[lock_location].known_guards, guard_location, guard_kind)
        gi == known[guard_location]
        gi2 == [gi EXCEPT
                  !.num_uses = @ + 1,
                  !.avg_wait_time = SMA_add_sample(@, wait_time),
                  !.max_wait_time = IF wait_time > @ THEN wait_time ELSE @]
    IN [infos EXCEPT ![lock_location].known_guards = MapInsert(known, guard_location, gi2)]

\* from_wait_guard: entry().or_insert_with(), waiting_tasks.remove(),
\* num_uses += 1, add_sample and the maximum.
from_wait_guard_stats(infos, lock_location, guard_location, guard_kind, guard_index, wait_time) ==
    LET known == entry_or_insert(infos[lock_location].known_guards, guard_location, guard_kind)
        gi == known[guard_location]
        gi2 == [gi EXCEPT
                  !.waiting_tasks = MapRemove(@, guard_index),
                  !.num_uses = @ + 1,
                  !.avg_wait_time = SMA_add_sample(@, wait_time),
                  !.max_wait_time = IF wait_time > @ THEN wait_time ELSE @]
    IN [infos EXCEPT ![lock_location].known_guards = MapInsert(known, guard_location, gi2)]

\* guard_info.active_uses.insert(guard_index, Instant::now())
active_uses_insert(infos, lock_location, guard_location, guard_index, instant) ==
    [infos EXCEPT ![lock_location].known_guards[guard_location].active_uses =
                      MapInsert(@, guard_index, instant)]

\* Drop for LockGuard: known_guard.active_uses.remove(&self.guard_index)
active_uses_remove(infos, lock_location, guard_location, guard_index) ==
    [infos EXCEPT ![lock_location].known_guards[guard_location].active_uses =
                      MapRemove(@, guard_index)]

\* Drop for LockGuard: avg_duration.add_sample(duration) and the maximum.
LockGuard_drop_stats(infos, lock_location, guard_location, duration) ==
    [infos EXCEPT ![lock_location].known_guards[guard_location] =
        [@ EXCEPT !.avg_duration = SMA_add_sample(@, duration),
                  !.max_duration = IF duration > @ THEN duration ELSE @]]

\* LockGuard::new under the mutex, up to the maximum.
PartNewStats(t) ==
    /\ thr[t].pc = "acquired"
    /\ held[t] = {"read", OpLocation(t)}
    /\ LOCK_INFOS' = LockGuard_new_stats(LOCK_INFOS, OpLocation(t), thr[t].guard_location,
                                         thr[t].guard_kind, now - thr[t].timestamp)
    /\ thr' = [thr EXCEPT ![t] = [pc |-> "acquired_half", inst |-> thr[t].inst,
                                  guard_location |-> thr[t].guard_location,
                                  guard_kind |-> thr[t].guard_kind,
                                  timestamp |-> thr[t].timestamp,
                                  guard_idx |-> thr[t].guard_idx,
                                  before |-> LOCK_INFOS[OpLocation(t)]]]
    /\ UNCHANGED <<adapter, held, GUARD_COUNTER, locks, guards, now, panics, created, returned>>

\* LockGuard::new: the active entry, the end of the `if let` and the return
\* of the LockGuard.
PartNewInsert(t) ==
    /\ thr[t].pc = "acquired_half"
    /\ LOCK_INFOS' = active_uses_insert(LOCK_INFOS, locks[thr[t].inst].location,
                                        thr[t].guard_location, thr[t].guard_idx, now)
    /\ guards' = guards \cup {[guard_index |-> thr[t].guard_idx,
                               lock_location |-> locks[thr[t].inst].location,
                               guard_location |-> thr[t].guard_location,
                               inst |-> thr[t].inst,
                               mode |-> thr[t].guard_kind]}
    /\ returned' = [returned EXCEPT
                       ![<<locks[thr[t].inst].location, thr[t].guard_location>>] = @ + 1]
    /\ held' = ReleaseAll(held, t)
    /\ thr' = Observe([thr EXCEPT ![t] = Idle], LOCK_INFOS')
    /\ UNCHANGED <<adapter, GUARD_COUNTER, locks, now, panics, created>>

\* from_wait_guard under the mutex, up to the maximum.
PartConvStats(t) ==
    /\ thr[t].pc = "wait_acquired"
    /\ held[t] = {"read", OpLocation(t)}
    /\ LOCK_INFOS' = from_wait_guard_stats(LOCK_INFOS, OpLocation(t), thr[t].guard_location,
                                           thr[t].guard_kind, thr[t].wait_index,
                                           now - thr[t].timestamp)
    /\ thr' = [thr EXCEPT ![t] = [pc |-> "wait_acquired_half", inst |-> thr[t].inst,
                                  guard_location |-> thr[t].guard_location,
                                  guard_kind |-> thr[t].guard_kind,
                                  timestamp |-> thr[t].timestamp,
                                  wait_index |-> thr[t].wait_index,
                                  before |-> LOCK_INFOS[OpLocation(t)]]]
    /\ UNCHANGED <<adapter, held, GUARD_COUNTER, locks, guards, now, panics, created, returned>>

\* from_wait_guard: the active entry, the end of the `if let` and the return
\* of the LockGuard.
PartConvInsert(t) ==
    /\ thr[t].pc = "wait_acquired_half"
    /\ LOCK_INFOS' = active_uses_insert(LOCK_INFOS, locks[thr[t].inst].location,
                                        thr[t].guard_location, thr[t].wait_index, now)
    /\ guards' = guards \cup {[guard_index |-> thr[t].wait_index,
                               lock_location |-> locks[thr[t].inst].location,
                               guard_location |-> thr[t].guard_location,
                               inst |-> thr[t].inst,
                               mode |-> thr[t].guard_kind]}
    /\ returned' = [returned EXCEPT
                       ![<<locks[thr[t].inst].location, thr[t].guard_location>>] = @ + 1]
    /\ held' = ReleaseAll(held, t)
    /\ thr' = Observe([thr EXCEPT ![t] = Idle], LOCK_INFOS')
    /\ UNCHANGED <<adapter, GUARD_COUNTER, locks, now, panics, created>>

\* Drop for LockGuard under the mutex: the two unwrap() calls and the
\* removal of the active entry.
PartDropRemove(t) ==
    /\ thr[t].pc = "drop"
    /\ held[t] = {"read", OpLocation(t)}
    /\ IF LockGuard_drop_panics(LOCK_INFOS, thr[t].g.lock_location,
                                thr[t].g.guard_location, thr[t].g.guard_index)
       THEN /\ panics' = panics \cup {"unwrap"}
            /\ held' = ReleaseAll(held, t)
            /\ thr' = [thr EXCEPT ![t] = [pc |-> "drop_native", g |-> thr[t].g,
                                          panicking |-> thr[t].panicking]]
            /\ UNCHANGED LOCK_INFOS
       ELSE /\ LOCK_INFOS' = active_uses_remove(LOCK_INFOS, thr[t].g.lock_location,
                                                thr[t].g.guard_location,
                                                thr[t].g.guard_index)
            /\ thr' = [thr EXCEPT ![t] =
                          [pc |-> "drop_half", g |-> thr[t].g,
                           panicking |-> thr[t].panicking,
                           timestamp |-> thr[t].timestamp,
                           guard_timestamp |->
                               GuardInfoAt(LOCK_INFOS, <<thr[t].g.lock_location,
                                                         thr[t].g.guard_location>>)
                                   .active_uses[thr[t].g.guard_index],
                           before |-> LOCK_INFOS[thr[t].g.lock_location]]]
            /\ UNCHANGED <<held, panics>>
    /\ UNCHANGED <<adapter, GUARD_COUNTER, locks, guards, now, created, returned>>

\* Drop for LockGuard: the hold duration is folded, the `if let` ends.
PartDropStats(t) ==
    /\ thr[t].pc = "drop_half"
    /\ LOCK_INFOS' = LockGuard_drop_stats(LOCK_INFOS, thr[t].g.lock_location,
                                          thr[t].g.guard_location,
                                          thr[t].timestamp - thr[t].guard_timestamp)
    /\ held' = ReleaseAll(held, t)
    /\ thr' = Observe([thr EXCEPT ![t] = [pc |-> "drop_native", g |-> thr[t].g,
                                          panicking |-> thr[t].panicking]], LOCK_INFOS')
    /\ UNCHANGED <<adapter, GUARD_COUNTER, locks, guards, now, panics, created, returned>>

\* Programs on parking_lot locks that build locks, take guards, wait for
\* them and drop them while snapshots of the registry are taken, whose
\* history is kept at the end of every critical section.
PartsInit == Init /\ adapter = "parking_lot"

PartsNext ==
    \/ SyncRegisterSteps
    \/ \E t \in Threads, i \in LockIds, gl \in GuardLocs : FastAcquire(t, i, gl)
    \/ \E t \in Threads : SyncRead(t)
    \/ \E t \in Threads : SyncLockInfo(t)
    \/ \E t \in Threads : PartNewStats(t)
    \/ \E t \in Threads : PartNewInsert(t)
    \/ \E t \in Threads, i \in LockIds, gl \in GuardLocs : SyncStartWait(t, i, gl)
    \/ \E t \in Threads : SyncWaitGuardNew(t)
    \/ \E t \in Threads : SyncWaitAcquire(t)
    \/ \E t \in Threads : PartConvStats(t)
    \/ \E t \in Threads : PartConvInsert(t)
    \/ \E t \in Threads, g \in guards : SyncDropStart(t, g, FALSE)
    \/ \E t \in Threads : PartDropRemove(t)
    \/ \E t \in Threads : PartDropStats(t)
    \/ \E t \in Threads : SyncDropNative(t)
    \/ \E t \in Reporters : SnapshotCall(t, TRUE)
    \/ \E t \in Threads : SnapshotRead(t)
    \/ \E t \in Threads, location \in LockLocs : SnapshotClone(t, location)
    \/ \E t \in Threads : SnapshotReturn(t)
    \/ \E t \in Threads : SnapshotDone(t)

SpecParts == PartsInit /\ [][PartsNext]_vars

\* ------------------------------------------------ feeding known sequences
\* The thread that feeds the averages, and what one use of the guard site
\* feeds: the time the lock call waited and the time the guard was held.
Feeder == "t1"

Uses == {[wait |-> 0, hold |-> 3], [wait |-> 1, hold |-> 0], [wait |-> 3, hold |-> 1]}

\* A Mutex was built at L1; the feeder is about to lock it at g1 again and
\* again and notes the times it feeds.
SMAInit ==
    /\ adapter = "parking_lot"
    /\ LOCK_INFOS = register(EmptyMap, "L1", "Mutex")
    /\ GUARD_COUNTER = 0
    /\ locks = <<[location |-> "L1", kind |-> "Mutex", adapter |-> "parking_lot",
                  writer |-> FALSE, readers |-> 0, raw |-> 0, poisoned |-> FALSE]>>
    /\ guards = {}
    /\ \E use \in Uses :
          thr = [t \in Threads |->
                    IF t = Feeder
                    THEN [pc |-> "feeding", use |-> use, changes |-> 0,
                          waits |-> <<>>, holds |-> <<>>]
                    ELSE Idle]
    /\ now = 0
    /\ panics = {}
    /\ created = [l \in LockLocs |-> IF l = "L1" THEN 1 ELSE 0]
    /\ returned = [s \in LockLocs \X GuardLocs |-> 0]
    /\ held = [t \in Threads |-> {}]

\* lock() at g1 returns after use.wait: LockGuard::new folds the wait time.
SampleAcquire(t, use) ==
    /\ thr[t].pc = "feeding"
    /\ Len(thr[t].waits) < MaxUses
    /\ use = thr[t].use \/ thr[t].changes < MaxChanges
    /\ now' = now + use.wait
    /\ GUARD_COUNTER' = fetch_add(GUARD_COUNTER)
    /\ LOCK_INFOS' = LockGuard_new(LOCK_INFOS, "L1", "g1", "Lock", GUARD_COUNTER,
                                   use.wait, now + use.wait)
    /\ locks' = [locks EXCEPT ![1] = NativeAcquire(@, "Lock")]
    /\ guards' = guards \cup {[guard_index |-> GUARD_COUNTER, lock_location |-> "L1",
                               guard_location |-> "g1", inst |-> 1, mode |-> "Lock"]}
    /\ returned' = [returned EXCEPT ![<<"L1", "g1">>] = @ + 1]
    /\ thr' = [thr EXCEPT ![t] =
                  [pc |-> "feeding_held", use |-> use,
                   changes |-> IF use = thr[t].use THEN thr[t].changes
                               ELSE thr[t].changes + 1,
                   waits |-> Append(thr[t].waits, use.wait),
                   holds |-> thr[t].holds,
                   guard_idx |-> GUARD_COUNTER]]
    /\ UNCHANGED <<adapter, held, panics, created>>

\* The guard is dropped after use.hold: its drop folds the hold duration.
SampleDrop(t) ==
    /\ thr[t].pc = "feeding_held"
    /\ now' = now + thr[t].use.hold
    /\ LOCK_INFOS' = LockGuard_drop(LOCK_INFOS, "L1", "g1", thr[t].guard_idx,
                                    now + thr[t].use.hold)
    /\ locks' = [locks EXCEPT ![1] = NativeRelease(@, "Lock", FALSE)]
    /\ guards' = {g \in guards : g.guard_index # thr[t].guard_idx}
    /\ thr' = [thr EXCEPT ![t] =
                  [pc |-> "feeding", use |-> thr[t].use, changes |-> thr[t].changes,
                   waits |-> thr[t].waits,
                   holds |-> Append(thr[t].holds, thr[t].use.hold)]]
    /\ UNCHANGED <<adapter, held, GUARD_COUNTER, panics, created, returned>>

SMANext ==
    \/ \E use \in Uses : SampleAcquire(Feeder, use)
    \/ SampleDrop(Feeder)

SpecSMA == SMAInit /\ [][SMANext]_vars

\* ------------------------------------------------------------------ claims
\* C1: an asynchronous lock()/read()/write() that took the contended path and
\* is abandoned before the native acquisition completes removes the waiting
\* entry of its id, produces no LockGuard and leaves num_uses, the active
\* uses and the wait and hold statistics of its GuardInfo alone; so does the
\* WaitGuard::new that started the attempt, which only adds the waiting entry.
C1_CancelledWaitLeavesNoTrace ==
    [][\A t \in Threads :
          /\ (adapter = "tokio" /\ thr[t].pc = "waiting" /\ thr'[t].pc = "idle") =>
                /\ HasGuardInfo(LOCK_INFOS', SiteOf(t))
                /\ thr[t].wait_index \notin WaitingIds(LOCK_INFOS', SiteOf(t))
                /\ GuardInfoAt(LOCK_INFOS', SiteOf(t)) =
                       [GuardInfoAt(LOCK_INFOS, SiteOf(t)) EXCEPT
                           !.waiting_tasks = MapRemove(@, thr[t].wait_index)]
                /\ guards' = guards
                /\ \A g \in guards' : g.guard_index # thr[t].wait_index
          /\ (thr[t].pc = "idle" /\ thr'[t].pc = "waiting") =>
                /\ thr'[t].wait_index \in WaitingIds(LOCK_INFOS', SiteOf(t)')
                /\ [GuardInfoAt(LOCK_INFOS', SiteOf(t)') EXCEPT
                       !.waiting_tasks = MapRemove(@, thr'[t].wait_index)] =
                   IF HasGuardInfo(LOCK_INFOS, SiteOf(t)')
                   THEN GuardInfoAt(LOCK_INFOS, SiteOf(t)')
                   ELSE GuardInfo_new(KindAt(thr'[t].guard_location), thr'[t].guard_location)
                /\ guards' = guards]_vars

\* Witness of C1: under tokio a wait was started at a guard site that had
\* already been used once and was then abandoned: two ids were minted, the
\* first for the LockGuard that is still held, nobody waits, and the only
\* GuardInfo there is has num_uses 1 and a recorded wait sample of 1.
C1_Witness ==
    /\ adapter = "tokio"
    /\ GUARD_COUNTER = 2
    /\ WaitGuardOwners = {}
    /\ \A t \in Threads : thr[t].pc = "idle"
    /\ SumOver(returned, Sites) = 1
    /\ \E g \in guards : g.guard_index = 0
    /\ \E site \in Sites :
          /\ HasGuardInfo(LOCK_INFOS, site)
          /\ \A other \in Sites \ {site} : ~HasGuardInfo(LOCK_INFOS, other)
          /\ GuardInfoAt(LOCK_INFOS, site).num_uses = 1
          /\ GuardInfoAt(LOCK_INFOS, site).max_wait_time = 1
          /\ GuardInfoAt(LOCK_INFOS, site).waiting_tasks = EmptyMap

\* C2: for each GuardInfo the wait samples folded so far are num_uses, one
\* per LockGuard returned from that site, and the hold samples folded so far
\* are num_uses minus the active uses, one per LockGuard of that site that was
\* dropped; cancelled waits, failed tries and poisoned acquisitions fold none.
C2_ExactlyOnceAccounting ==
    \A site \in Sites :
        IF HasGuardInfo(LOCK_INFOS, site)
        THEN LET gi == GuardInfoAt(LOCK_INFOS, site) IN
             /\ gi.avg_wait_time.folded = gi.num_uses
             /\ gi.avg_duration.folded = gi.num_uses - Cardinality(DOMAIN gi.active_uses)
             /\ gi.avg_wait_time.folded = returned[site]
             /\ gi.avg_duration.folded = returned[site] - Cardinality(GuardsAt(site))
        ELSE returned[site] = 0

\* Witness of C2: a guard site used twice, one of the two guards dropped and
\* the other still held.
C2_Witness ==
    \E site \in Sites :
        /\ NumUses(LOCK_INFOS, site) = 2
        /\ Cardinality(ActiveIds(LOCK_INFOS, site)) = 1
        /\ GuardInfoAt(LOCK_INFOS, site).avg_duration.folded = 1

\* C3: without a registry reset every LockGuard that exists has its
\* guard_index in active_uses of its GuardInfo, no drop has hit a missing
\* entry, and a drop removes that one entry and no other.
C3_ReleaseFindsItsEntry ==
    /\ [](/\ panics = {}
          /\ \A g \in guards :
                g.guard_index \in ActiveIds(LOCK_INFOS, <<g.lock_location, g.guard_location>>))
    /\ [][\A g \in guards :
             g \notin guards' =>
                \A site \in Sites :
                    /\ HasGuardInfo(LOCK_INFOS', site) = HasGuardInfo(LOCK_INFOS, site)
                    /\ HasGuardInfo(LOCK_INFOS, site) =>
                          GuardInfoAt(LOCK_INFOS', site).active_uses =
                             IF site = <<g.lock_location, g.guard_location>>
                             THEN MapRemove(GuardInfoAt(LOCK_INFOS, site).active_uses,
                                            g.guard_index)
                             ELSE GuardInfoAt(LOCK_INFOS, site).active_uses]_vars

\* Witness of C3: of two guards taken from one guard site the later one was
\* dropped and the earlier one is still registered.
C3_Witness ==
    /\ GUARD_COUNTER = 2
    /\ \E g \in guards :
          /\ guards = {g}
          /\ g.guard_index = 0
          /\ LET gi == GuardInfoAt(LOCK_INFOS, <<g.lock_location, g.guard_location>>) IN
             /\ gi.num_uses = 2
             /\ DOMAIN gi.active_uses = {0}

\* C4: num_uses of a guard site is the number of LockGuards returned from it
\* (0 when it has no GuardInfo) and it never decreases.
C4_NumUsesCountsAcquisitions ==
    /\ [](\A site \in Sites : NumUses(LOCK_INFOS, site) = returned[site])
    /\ [][\A site \in Sites : NumUses(LOCK_INFOS', site) >= NumUses(LOCK_INFOS, site)]_vars

\* Witness of C4: under std a wait ended on a poisoned lock: two ids were
\* minted, nothing is in flight, and one acquisition was counted.
C4_Witness ==
    /\ adapter = "std"
    /\ GUARD_COUNTER = 2
    /\ \A t \in Threads : thr[t].pc = "idle"
    /\ \E i \in 1..Len(locks) : locks[i].poisoned /\ locks[i].raw = 1
    /\ \E site \in Sites :
          /\ NumUses(LOCK_INFOS, site) = 1
          /\ \A other \in Sites \ {site} : NumUses(LOCK_INFOS, other) = 0

\* C5: waiting_tasks of a guard site holds exactly the wait_index of every
\* WaitGuard at that site that exists and was neither converted nor dropped.
C5_WaitingIffWaitGuard ==
    \A site \in Sites :
        WaitingIds(LOCK_INFOS, site) =
            {thr[t].wait_index : t \in {o \in WaitGuardOwners : SiteOf(o) = site}}

\* Witness of C5: a waiter whose native acquisition has returned but whose
\* WaitGuard is not yet converted, beside an idle thread.
C5_Witness ==
    \E t \in Threads :
        /\ thr[t].pc = "wait_acquired"
        /\ thr[t].wait_index \in WaitingIds(LOCK_INFOS, SiteOf(t))
        /\ \A o \in Threads \ {t} : thr[o].pc = "idle"

\* C6: num_active_uses of a guard site is the number of LockGuards taken from
\* it that exist, and a drop leaves every num_uses as it was.
C6_ActiveCountsLiveGuards ==
    /\ [](\A site \in Sites :
             /\ Cardinality(ActiveIds(LOCK_INFOS, site)) = Cardinality(GuardsAt(site))
             /\ HasGuardInfo(LOCK_INFOS, site) =>
                   num_active_uses(GuardInfoAt(LOCK_INFOS, site)) = Cardinality(GuardsAt(site)))
    /\ [][(guards' # guards /\ guards' \subseteq guards) =>
             \A site \in Sites : NumUses(LOCK_INFOS', site) = NumUses(LOCK_INFOS, site)]_vars

\* Witness of C6: two guard sites used once each, the guard of one dropped and
\* the guard of the other still held.
C6_Witness ==
    \E s1 \in Sites, s2 \in Sites :
        /\ s1 # s2
        /\ NumUses(LOCK_INFOS, s1) = 1 /\ NumUses(LOCK_INFOS, s2) = 1
        /\ HasGuardInfo(LOCK_INFOS, s1) /\ HasGuardInfo(LOCK_INFOS, s2)
        /\ num_active_uses(GuardInfoAt(LOCK_INFOS, s1)) = 0
        /\ num_active_uses(GuardInfoAt(LOCK_INFOS, s2)) = 1
        /\ Cardinality(guards) = 1

\* C7: the active uses of a GuardInfo never outnumber its num_uses.
C7_ActiveWithinUses ==
    \A site \in Sites :
        HasGuardInfo(LOCK_INFOS, site) =>
            /\ 0 <= num_active_uses(GuardInfoAt(LOCK_INFOS, site))
            /\ num_active_uses(GuardInfoAt(LOCK_INFOS, site)) <=
                  GuardInfoAt(LOCK_INFOS, site).num_uses

\* Witness of C7: a guard site whose two uses are both active, one of them
\* accounted a tick after its call started.
C7_Witness ==
    \E site \in Sites :
        /\ HasGuardInfo(LOCK_INFOS, site)
        /\ num_active_uses(GuardInfoAt(LOCK_INFOS, site)) = 2
        /\ GuardInfoAt(LOCK_INFOS, site).num_uses = 2
        /\ GuardInfoAt(LOCK_INFOS, site).max_wait_time = 1

\* C8: a GuardInfo of kind Lock or Write has at most one active use, whatever
\* the program does, several lock objects built at one call site included.
\* The code breaks this: two Mutex objects built at one call site share one
\* LockInfo, and guards of both taken at one guard site share one GuardInfo.
C8_ExclusiveKindsHaveOneUse ==
    \A site \in Sites :
        (/\ HasGuardInfo(LOCK_INFOS, site)
         /\ GuardInfoAt(LOCK_INFOS, site).kind \in {"Lock", "Write"}) =>
            num_active_uses(GuardInfoAt(LOCK_INFOS, site)) <= 1

\* C9: the ids of the LockGuards and WaitGuards that exist are pairwise
\* distinct, every id in the registry was minted already (so the next id
\* inserted is new to every map) and no id sits in two places.
C9_IdsAreDistinct ==
    /\ \A g \in guards : \A h \in guards : g # h => g.guard_index # h.guard_index
    /\ \A t \in WaitGuardOwners : \A o \in WaitGuardOwners :
          t # o => thr[t].wait_index # thr[o].wait_index
    /\ \A g \in guards : \A t \in WaitGuardOwners : g.guard_index # thr[t].wait_index
    /\ \A site \in Sites :
          /\ \A id \in ActiveIds(LOCK_INFOS, site) \cup WaitingIds(LOCK_INFOS, site) :
                id < GUARD_COUNTER
          /\ ActiveIds(LOCK_INFOS, site) \cap WaitingIds(LOCK_INFOS, site) = {}
          /\ \A other \in Sites \ {site} :
                (ActiveIds(LOCK_INFOS, site) \cup WaitingIds(LOCK_INFOS, site)) \cap
                (ActiveIds(LOCK_INFOS, other) \cup WaitingIds(LOCK_INFOS, other)) = {}
    /\ Cardinality(guards) + Cardinality(WaitGuardOwners) <= GUARD_COUNTER

\* Witness of C9: a LockGuard and a WaitGuard of the same guard site exist at
\* the same time, and the WaitGuard has the smaller id.
C9_Witness ==
    \E t \in WaitGuardOwners : \E g \in guards :
        /\ SiteOf(t) = <<g.lock_location, g.guard_location>>
        /\ thr[t].wait_index < g.guard_index

\* C10: a Location has a LockInfo exactly when one was built for it, none is
\* ever built twice, every lock object carries the Location its constructor
\* was called from, and a register call adds one LockInfo when its Location
\* is new and none when it is registered already.
C10_OneLockInfoPerLocation ==
    /\ [](/\ \A location \in LockLocs :
                /\ created[location] <= 1
                /\ (location \in DOMAIN LOCK_INFOS) = (created[location] = 1)
                /\ location \in DOMAIN LOCK_INFOS =>
                      LOCK_INFOS[location].location = location
          /\ \A i \in 1..Len(locks) : locks[i].location \in DOMAIN LOCK_INFOS)
    /\ [][\A t \in Threads :
             (thr[t].pc = "registering" /\ thr'[t].pc = "idle") =>
                /\ Len(locks') = Len(locks) + 1
                /\ locks'[Len(locks')].location = thr[t].location
                /\ DOMAIN LOCK_INFOS' = DOMAIN LOCK_INFOS \cup {thr[t].location}
                /\ \A location \in DOMAIN LOCK_INFOS :
                      LOCK_INFOS'[location] = LOCK_INFOS[location]]_vars

\* Witness of C10: two lock objects were built at one call site, a guard of
\* one of them was counted, and one LockInfo exists.
C10_Witness ==
    /\ Len(locks) = 2
    /\ locks[1].location = "L1" /\ locks[2].location = "L1"
    /\ created = [location \in LockLocs |-> IF location = "L1" THEN 1 ELSE 0]
    /\ DOMAIN LOCK_INFOS = {"L1"}
    /\ \E gl \in GuardLocs : NumUses(LOCK_INFOS, <<"L1", gl>>) = 1

\* The guard sites a step of thread t may touch: the site of the call t is in
\* before or after the step.
SitesOfStep(t) ==
    (IF thr[t].pc \in {"acquired", "waiting", "wait_acquired"} THEN {SiteOf(t)} ELSE {}) \cup
    (IF thr'[t].pc \in {"acquired", "waiting", "wait_acquired"} THEN {SiteOf(t)'} ELSE {})

\* C11: a LockInfo keeps one GuardInfo per guard Location. The entry of a
\* site carries that site's Location and kind and exists once a guard was
\* returned from the site; an entry is never removed or replaced by a new
\* one (its num_uses and its folded samples never go down, so a second or a
\* concurrent first acquisition from the site adds to the entry of the
\* first), and an acquisition or wait at one site creates or changes no
\* entry of another site.
C11_OneGuardInfoPerSite ==
    /\ [](\A site \in Sites :
             /\ returned[site] > 0 => HasGuardInfo(LOCK_INFOS, site)
             /\ HasGuardInfo(LOCK_INFOS, site) =>
                   /\ GuardInfoAt(LOCK_INFOS, site).location = site[2]
                   /\ GuardInfoAt(LOCK_INFOS, site).kind = KindAt(site[2])
                   /\ GuardInfoAt(LOCK_INFOS, site).num_uses = returned[site]
                   /\ GuardInfoAt(LOCK_INFOS, site).avg_wait_time.folded = returned[site])
    /\ [][/\ \A site \in Sites :
                HasGuardInfo(LOCK_INFOS, site) =>
                   /\ HasGuardInfo(LOCK_INFOS', site)
                   /\ GuardInfoAt(LOCK_INFOS', site).num_uses >=
                         GuardInfoAt(LOCK_INFOS, site).num_uses
                   /\ GuardInfoAt(LOCK_INFOS', site).avg_wait_time.folded >=
                         GuardInfoAt(LOCK_INFOS, site).avg_wait_time.folded
                   /\ GuardInfoAt(LOCK_INFOS', site).avg_duration.folded >=
                         GuardInfoAt(LOCK_INFOS, site).avg_duration.folded
          /\ \A t \in Threads :
                thr'[t] # thr[t] =>
                   \A site \in Sites \ SitesOfStep(t) :
                       /\ HasGuardInfo(LOCK_INFOS', site) = HasGuardInfo(LOCK_INFOS, site)
                       /\ HasGuardInfo(LOCK_INFOS, site) =>
                             GuardInfoAt(LOCK_INFOS', site) = GuardInfoAt(LOCK_INFOS, site)]_vars

\* Witness of C11: two threads take read guards of one lock from one call
\* site, the second call having started before the entry of the first was
\* made: the site has its one GuardInfo with the first use in it, and no
\* other site has an entry.
C11_Witness ==
    \E s1 \in Sites :
        /\ HasGuardInfo(LOCK_INFOS, s1)
        /\ GuardInfoAt(LOCK_INFOS, s1).num_uses = 1
        /\ \A s2 \in Sites \ {s1} : ~HasGuardInfo(LOCK_INFOS, s2)
        /\ \E t \in Threads :
              /\ thr[t].pc = "acquired"
              /\ SiteOf(t) = s1
              /\ \E id \in ActiveIds(LOCK_INFOS, s1) :
                    thr[t].timestamp < GuardInfoAt(LOCK_INFOS, s1).active_uses[id]

\* A GuardInfo with its waiting entries left out.
WithoutWaiting(gi) == [gi EXCEPT !.waiting_tasks = EmptyMap]

\* C15: a lock()/read()/write() to which the native primitive reports
\* poisoning (on the fast path or after waiting) hands the caller the error
\* (with the native guard inside it) and no LockGuard: the guards, the ids
\* and every GuardInfo apart from waiting entries stay as they were, a
\* WaitGuard of the call is gone with its waiting entry and no other waiting
\* entry changes; and no LockGuard is ever made for a poisoned lock.
C15_PoisonReturnsErrorOnly ==
    /\ [](/\ \A g \in guards : ~locks[g.inst].poisoned
          /\ \A t \in Threads :
                thr[t].pc \in {"acquired", "wait_acquired"} => ~locks[thr[t].inst].poisoned)
    /\ [][\A i \in 1..Len(locks) :
             locks'[i].raw > locks[i].raw =>
                /\ locks[i].poisoned /\ locks'[i].poisoned
                /\ guards' = guards
                /\ returned' = returned
                /\ GUARD_COUNTER' = GUARD_COUNTER
                /\ panics' = panics
                /\ DOMAIN LOCK_INFOS' = DOMAIN LOCK_INFOS
                /\ \A site \in Sites :
                      /\ HasGuardInfo(LOCK_INFOS', site) = HasGuardInfo(LOCK_INFOS, site)
                      /\ HasGuardInfo(LOCK_INFOS, site) =>
                            WithoutWaiting(GuardInfoAt(LOCK_INFOS', site)) =
                               WithoutWaiting(GuardInfoAt(LOCK_INFOS, site))
                /\ \A t \in Threads :
                      IF thr[t].pc = "waiting" /\ thr'[t] # thr[t]
                      THEN /\ thr[t].inst = i
                           /\ thr'[t].pc = "idle"
                           /\ WaitingIds(LOCK_INFOS', SiteOf(t)) =
                                 WaitingIds(LOCK_INFOS, SiteOf(t)) \ {thr[t].wait_index}
                           /\ \A site \in Sites \ {SiteOf(t)} :
                                 WaitingIds(LOCK_INFOS', site) = WaitingIds(LOCK_INFOS, site)
                      ELSE thr'[t] = thr[t]
                /\ (\A t \in Threads : thr'[t] = thr[t]) => LOCK_INFOS' = LOCK_INFOS]_vars

\* Witness of C15: under std a waiter was woken on a poisoned lock and got
\* the error: the lock is poisoned, its native guard is with the caller, the
\* two ids went to the guard dropped in a panic and to the waiter, nobody
\* waits, no LockGuard exists, and the one use counted is the first guard's.
C15_Witness ==
    /\ adapter = "std"
    /\ GUARD_COUNTER = 2
    /\ guards = {}
    /\ WaitGuardOwners = {}
    /\ \E i \in 1..Len(locks) : locks[i].poisoned /\ locks[i].raw = 1
    /\ \A site \in Sites : WaitingIds(LOCK_INFOS, site) = {}
    /\ SumOver(returned, Sites) = 1
    /\ \E site \in Sites :
          /\ HasGuardInfo(LOCK_INFOS, site)
          /\ GuardInfoAt(LOCK_INFOS, site).avg_duration.folded = 1

\* C16: a try_lock/try_read/try_write whose native attempt fails changes
\* nothing: registry, id counter, guards, native locks and the counts of
\* guards returned are as before, no WaitGuard exists that did not before,
\* and the caller gets the failure.
C16_FailedTryChangesNothing ==
    [][\A t \in Threads :
          (thr'[t] # thr[t] /\ (thr[t].pc = "try_failed" \/ thr'[t].pc = "try_failed")) =>
             /\ LOCK_INFOS' = LOCK_INFOS
             /\ GUARD_COUNTER' = GUARD_COUNTER
             /\ guards' = guards
             /\ locks' = locks
             /\ returned' = returned
             /\ panics' = panics
             /\ thr[t].pc \in {"idle", "try_failed"}
             /\ thr'[t].pc \in {"idle", "try_failed"}
             /\ WaitGuardOwners' = WaitGuardOwners]_vars

\* Witness of C16: a try call has failed on a lock another caller holds
\* through a LockGuard; the registry shows that one use and no waiter.
C16_Witness ==
    \E t \in Threads :
        /\ thr[t].pc = "try_failed"
        /\ Cardinality(guards) = 1
        /\ GUARD_COUNTER = 1
        /\ \E site \in Sites :
              /\ NumUses(LOCK_INFOS, site) = 1
              /\ Cardinality(ActiveIds(LOCK_INFOS, site)) = 1
        /\ \A site \in Sites : WaitingIds(LOCK_INFOS, site) = {}

\* C17: the caller gets a LockGuard exactly when the native primitive granted
\* the lock. A call whose native acquisition succeeded ends by returning one
\* new LockGuard for that lock and mode with the native guard still held; a
\* LockGuard appears in no other way; a native grant happens only on a lock
\* free for the mode; a failed try and a poison error return without a
\* guard; and the bookkeeping never panics.
C17_OutcomesAreNative ==
    /\ [](panics = {})
    /\ [][/\ \A t \in Threads :
                /\ (thr[t].pc \in {"acquired", "wait_acquired"} /\ thr'[t] # thr[t]) =>
                      /\ thr'[t].pc = "idle"
                      /\ locks' = locks
                      /\ \E g \in guards' \ guards :
                            /\ guards' = guards \cup {g}
                            /\ g.inst = thr[t].inst
                            /\ g.mode = thr[t].guard_kind
                            /\ g.lock_location = locks[thr[t].inst].location
                            /\ g.guard_location = thr[t].guard_location
                /\ (thr[t].pc # thr'[t].pc /\ thr'[t].pc \in {"acquired", "wait_acquired"}) =>
                      /\ CanAcquire(locks[thr'[t].inst], thr'[t].guard_kind)
                      /\ ~locks[thr'[t].inst].poisoned
                      /\ locks' = [locks EXCEPT ![thr'[t].inst] =
                                      NativeAcquire(@, thr'[t].guard_kind)]
                      /\ guards' = guards
                /\ (thr[t].pc = "idle" /\ thr'[t].pc \in {"waiting", "try_failed"}) =>
                      /\ locks' = locks
                      /\ guards' = guards
          /\ (guards' \ guards # {}) =>
                \E t \in Threads :
                    thr[t].pc \in {"acquired", "wait_acquired"} /\ thr'[t].pc = "idle"
          /\ (\E i \in 1..Len(locks) : locks'[i].raw > locks[i].raw) => guards' = guards]_vars

\* Witness of C17: a waiter was granted the lock after its holder released
\* it and got its LockGuard, which carries the id of its WaitGuard.
C17_Witness ==
    /\ GUARD_COUNTER = 2
    /\ \A t \in Threads : thr[t].pc = "idle"
    /\ panics = {}
    /\ \E g \in guards :
          /\ guards = {g}
          /\ g.guard_index = 1
          /\ g.mode \in {"Lock", "Write"}
          /\ locks[g.inst].writer
          /\ NumUses(LOCK_INFOS, <<g.lock_location, g.guard_location>>) = 2

\* A step of the lock_snapshots call of t itself (the history kept in its
\* record grows by the steps of others).
SnapshotStep(t) ==
    /\ "snapshot" \in {thr[t].pc, thr'[t].pc}
    /\ \/ thr'[t].pc # thr[t].pc
       \/ held'[t] # held[t]
       \/ thr'[t].todo # thr[t].todo

\* C18: lock_snapshots changes nothing: no step of the call changes the
\* registry, the id counter, the guards or the native locks. What it returns
\* is a copy: the LockInfos cloned so far and the vector returned stay as
\* they are whatever the other threads do to the registry afterwards.
C18_SnapshotIsIndependentCopy ==
    [][\A t \in Threads :
          /\ SnapshotStep(t) =>
                /\ LOCK_INFOS' = LOCK_INFOS
                /\ GUARD_COUNTER' = GUARD_COUNTER
                /\ guards' = guards
                /\ locks' = locks
                /\ returned' = returned
                /\ created' = created
                /\ panics' = panics
          /\ (thr[t].pc = "snapshot_done" /\ thr'[t].pc = "snapshot_done") =>
                thr'[t].snap = thr[t].snap
          /\ (thr[t].pc = "snapshot" /\ thr'[t].pc \in {"snapshot", "snapshot_done"}) =>
                \A location \in DOMAIN thr[t].snap :
                    /\ location \in DOMAIN thr'[t].snap
                    /\ thr'[t].snap[location] = thr[t].snap[location]]_vars

\* Witness of C18: a snapshot was returned that showed the whole registry as
\* it was at one moment of the call, and the registry has since moved on to
\* a state that did not exist during the call.
C18_Witness ==
    \E t \in Threads :
        /\ thr[t].pc = "snapshot_done"
        /\ thr[t].snap \in thr[t].seen
        /\ DOMAIN thr[t].snap # {}
        /\ LOCK_INFOS \notin thr[t].seen
        /\ \E location \in DOMAIN thr[t].snap :
              thr[t].snap[location] # LOCK_INFOS[location]

\* C19 as stated: the vector returned by lock_snapshots is the whole registry
\* as it was at one single instant between the call and its return.
C19_SnapshotIsOneInstant ==
    \A t \in Threads :
        thr[t].pc = "snapshot_done" => thr[t].snap \in thr[t].seen

\* C19, amended: every LockInfo of the vector returned is that LockInfo as it
\* was at one instant between the call and the return (a different instant
\* for each LockInfo, maybe), and the vector holds one element for each
\* LockInfo of the registry at the return: none is registered while the read
\* guard is held, so the ones cloned and the ones still to be cloned are the
\* registry's.
C19_EachLockInfoIsOneInstant ==
    \A t \in Threads :
        /\ thr[t].pc = "snapshot_done" =>
              /\ \E r \in thr[t].seen : DOMAIN r = DOMAIN thr[t].snap
              /\ \A location \in DOMAIN thr[t].snap :
                    \E r \in thr[t].seen :
                        /\ location \in DOMAIN r
                        /\ r[location] = thr[t].snap[location]
        /\ (thr[t].pc = "snapshot" /\ held[t] # {}) =>
              /\ DOMAIN thr[t].snap \cup thr[t].todo = DOMAIN LOCK_INFOS
              /\ DOMAIN thr[t].snap \cap thr[t].todo = {}
              /\ \A u \in Threads : thr[u].pc = "registering" => "write" \notin held[u]

\* Witness of C19: a vector returned with two LockInfos which, taken
\* together, the registry never held at any instant of the call.
C19_Witness ==
    \E t \in Threads :
        /\ thr[t].pc = "snapshot_done"
        /\ Cardinality(DOMAIN thr[t].snap) = 2
        /\ thr[t].snap \notin thr[t].seen

\* A step taken by thread t.
StepOf(t) == thr'[t] # thr[t] \/ held'[t] # held[t]

\* The native locks that exist are left as they are.
NativeUntouched ==
    /\ Len(locks') >= Len(locks)
    /\ \A i \in 1..Len(locks) : locks'[i] = locks[i]

\* C12: a thread that calls the native try or the native acquisition (from
\* pc idle), or that is blocked or suspended in the native acquisition (pc
\* waiting), holds neither the registry lock nor a LockInfo mutex, and no
\* step of a thread that holds one of them on either side of the step
\* acquires or releases a native lock.
C12_NoBookkeepingLockAcrossNative ==
    /\ [](\A t \in Threads :
            thr[t].pc \in {"idle", "waiting", "try_failed", "drop_native"} => held[t] = {})
    /\ [][\A t \in Threads :
            /\ (StepOf(t) /\ ~NativeUntouched) => (held[t] = {} /\ held'[t] = {})
            /\ (StepOf(t) /\ thr[t].pc \in {"idle", "waiting"}) =>
                  (held[t] = {} /\ held'[t] = {})]_vars

\* Witness of C12: a thread is blocked in the native acquisition of a lock
\* while another thread is inside the bookkeeping of the same lock, holding
\* the read lock of the registry and the mutex of the LockInfo.
C12_Witness ==
    \E t, u \in Threads :
        /\ thr[t].pc = "waiting"
        /\ held[t] = {}
        /\ thr[u].pc \in ReadingPcs
        /\ OpLocation(u) = OpLocation(t)
        /\ held[u] = {"read", OpLocation(u)}

\* The native lock of the call of t is held in the mode of the call.
NativeHeldBy(t) ==
    LET i == IF thr[t].pc \in {"drop", "drop_native"} THEN thr[t].g.inst ELSE thr[t].inst
        mode == IF thr[t].pc \in {"drop", "drop_native"} THEN thr[t].g.mode
                ELSE thr[t].guard_kind
    IN IF mode = "Read" THEN locks[i].readers > 0 ELSE locks[i].writer

\* The pcs of LockGuard::new, LockGuard::from_wait_guard and the drop of a
\* LockGuard.
GuardAccountingPcs == {"acquired", "wait_acquired", "drop"}

\* C13 as stated: a thread that changes the registry in LockGuard::new, in
\* from_wait_guard or in the drop of a LockGuard does not hold the native
\* lock of the call at that moment.
C13_NativeFreeWhileAccounting ==
    [][\A t \in Threads :
          (StepOf(t) /\ thr[t].pc \in GuardAccountingPcs /\ LOCK_INFOS' # LOCK_INFOS)
              => ~NativeHeldBy(t)]_vars

\* C13, amended: the native lock is held by the thread throughout the
\* accounting of LockGuard::new, from_wait_guard and the drop of a LockGuard
\* (the native guard is an argument of the first two and a field dropped
\* after Drop::drop in the third), and the accounting itself neither
\* acquires nor releases a native lock: the native lock is released only
\* after the release accounting has removed the active entry.
C13_AccountingHoldsNativeUntouched ==
    /\ [](\A t \in Threads :
            thr[t].pc \in GuardAccountingPcs \cup {"drop_native"} => NativeHeldBy(t))
    /\ [][\A t \in Threads :
            /\ (StepOf(t) /\ thr[t].pc \in GuardAccountingPcs /\ LOCK_INFOS' # LOCK_INFOS)
                  => (NativeHeldBy(t) /\ NativeUntouched)
            /\ (StepOf(t) /\ thr[t].pc = "drop_native") =>
                  thr[t].g.guard_index \notin
                      ActiveIds(LOCK_INFOS, <<thr[t].g.lock_location, thr[t].g.guard_location>>)]_vars

\* Witness of C13: a thread holds the mutex of the LockInfo to remove the
\* active entry of its guard, whose native lock is still held exclusively.
C13_Witness ==
    \E t \in Threads :
        /\ thr[t].pc = "drop"
        /\ held[t] = {"read", OpLocation(t)}
        /\ thr[t].g.mode # "Read"
        /\ locks[thr[t].g.inst].writer
        /\ thr[t].g.guard_index \in
              ActiveIds(LOCK_INFOS, <<thr[t].g.lock_location, thr[t].g.guard_location>>)

\* The pcs of a thread inside a bookkeeping operation: register, the
\* creation and the drop of a WaitGuard, the creation and the drop of a
\* LockGuard, lock_snapshots.
BookkeepingPcs ==
    {"registering", "acquired", "wait_new", "wait_acquired", "wait_drop", "drop",
     "drop_native", "snapshot"}

RECURSIVE SumSeq(_)
SumSeq(q) == IF q = <<>> THEN 0 ELSE Head(q) + SumSeq(Tail(q))

\* The most recent min(n, WINDOW_SIZE) of the n samples q.
MostRecent(q) ==
    IF Len(q) <= WINDOW_SIZE THEN q ELSE SubSeq(q, Len(q) - WINDOW_SIZE + 1, Len(q))

\* The arithmetic mean of the samples q as a Duration: whole nanoseconds,
\* the division of a Duration by an integer rounds down; zero for none.
MeanOf(q) == IF q = <<>> THEN 0 ELSE SumSeq(q) \div Len(q)

\* C20: after any sequence of n wait times (hold durations) folded into a
\* GuardInfo, avg_wait_time() (avg_duration()) is the arithmetic mean, in
\* whole nanoseconds, of the most recent min(n, 50) of them, which are the
\* samples the window holds; it is zero when n = 0.
C20_AverageOverWindow ==
    LET gi == LOCK_INFOS["L1"].known_guards["g1"]
        waits == thr[Feeder].waits
        holds == thr[Feeder].holds
    IN IF "g1" \notin DOMAIN LOCK_INFOS["L1"].known_guards
       THEN waits = <<>> /\ holds = <<>>
       ELSE /\ gi.avg_wait_time.samples = MostRecent(waits)
            /\ gi.avg_duration.samples = MostRecent(holds)
            /\ SMA_get_average(gi.avg_wait_time) = MeanOf(MostRecent(waits))
            /\ SMA_get_average(gi.avg_duration) = MeanOf(MostRecent(holds))
            /\ SMA_get_average(gi.avg_wait_time) * Len(MostRecent(waits))
                  <= SumSeq(MostRecent(waits))
            /\ SumSeq(MostRecent(waits))
                  < (SMA_get_average(gi.avg_wait_time) + 1) * Len(MostRecent(waits))
            /\ holds = <<>> => SMA_get_average(gi.avg_duration) = 0

\* Witness of C20: more samples were fed than the window holds, a sample
\* that was evicted differs from those kept, and the average is that of the
\* window and not that of all samples.
C20_Witness ==
    /\ "g1" \in DOMAIN LOCK_INFOS["L1"].known_guards
    /\ Len(thr[Feeder].holds) > WINDOW_SIZE
    /\ Head(thr[Feeder].holds) # thr[Feeder].holds[Len(thr[Feeder].holds)]
    /\ SMA_get_average(LOCK_INFOS["L1"].known_guards["g1"].avg_duration)
          # MeanOf(thr[Feeder].holds)
    /\ SMA_get_average(LOCK_INFOS["L1"].known_guards["g1"].avg_wait_time)
          # MeanOf(thr[Feeder].waits)

RECURSIVE MaxSeq(_)
\* The largest of the samples q; zero for none.
MaxSeq(q) ==
    IF q = <<>> THEN 0
    ELSE LET m == MaxSeq(Tail(q)) IN IF Head(q) > m THEN Head(q) ELSE m

\* The GuardInfo the feeder feeds, a new one before the first use.
FedGuardInfo(infos) ==
    IF "g1" \in DOMAIN infos["L1"].known_guards
    THEN infos["L1"].known_guards["g1"]
    ELSE GuardInfo_new("Lock", "g1")

\* C21: max_wait_time is the largest of all wait times folded so far and
\* max_duration the largest of all hold durations folded so far, zero when
\* there are none and whether or not the sample is still in the window of
\* the moving average; neither ever decreases.
C21_MaximaOverAllSamples ==
    /\ [](/\ FedGuardInfo(LOCK_INFOS).max_wait_time = MaxSeq(thr[Feeder].waits)
          /\ FedGuardInfo(LOCK_INFOS).max_duration = MaxSeq(thr[Feeder].holds))
    /\ [][/\ FedGuardInfo(LOCK_INFOS').max_wait_time >= FedGuardInfo(LOCK_INFOS).max_wait_time
          /\ FedGuardInfo(LOCK_INFOS').max_duration >= FedGuardInfo(LOCK_INFOS).max_duration]_vars

\* Witness of C21: the largest hold duration and the largest wait time were
\* fed so long ago that the windows no longer hold them.
C21_Witness ==
    /\ Len(thr[Feeder].holds) > WINDOW_SIZE
    /\ MaxSeq(MostRecent(thr[Feeder].holds)) < MaxSeq(thr[Feeder].holds)
    /\ MaxSeq(MostRecent(thr[Feeder].waits)) < MaxSeq(thr[Feeder].waits)
    /\ FedGuardInfo(LOCK_INFOS).max_duration = MaxSeq(thr[Feeder].holds)

\* The ids a LockInfo holds as waiting entries, and as active entries.
WaitingIn(info) ==
    UNION {DOMAIN info.known_guards[gl].waiting_tasks : gl \in DOMAIN info.known_guards}

ActiveIn(info) ==
    UNION {DOMAIN info.known_guards[gl].active_uses : gl \in DOMAIN info.known_guards}

\* The LockInfo at location was cloned by this step of the snapshot of t.
Cloned(t, location) ==
    /\ thr[t].pc = "snapshot"
    /\ thr'[t].pc = "snapshot"
    /\ location \in DOMAIN thr'[t].snap \ DOMAIN thr[t].snap

\* C22: from_wait_guard gives the LockGuard the id of its WaitGuard, mints
\* none, and moves the id from waiting_tasks to active_uses of its GuardInfo
\* with the use counted, all in one step under the mutex of the LockInfo, the
\* WaitGuard being gone with it. No LockInfo in a snapshot holds an id both
\* as waiting and as active; a LockInfo cloned while a WaitGuard exists holds
\* its id as waiting, one cloned while the LockGuard exists holds it as
\* active.
C22_ConversionMovesTheId ==
    /\ [](\A t \in Threads :
            thr[t].pc \in {"snapshot", "snapshot_done"} =>
                \A location \in DOMAIN thr[t].snap :
                    WaitingIn(thr[t].snap[location]) \cap ActiveIn(thr[t].snap[location]) = {})
    /\ [][\A t \in Threads :
            /\ \A location \in LockLocs :
                  Cloned(t, location) =>
                      /\ \A u \in WaitGuardOwners :
                            locks[thr[u].inst].location = location =>
                                /\ thr[u].wait_index \in WaitingIn(thr'[t].snap[location])
                                /\ thr[u].wait_index \notin ActiveIn(thr'[t].snap[location])
                      /\ \A g \in guards :
                            g.lock_location = location =>
                                /\ g.guard_index \in ActiveIn(thr'[t].snap[location])
                                /\ g.guard_index \notin WaitingIn(thr'[t].snap[location])
            /\ (thr[t].pc = "wait_acquired" /\ thr'[t] # thr[t]) =>
                  /\ GUARD_COUNTER' = GUARD_COUNTER
                  /\ thr'[t].pc = "idle"
                  /\ guards' \ guards =
                        {[guard_index |-> thr[t].wait_index,
                          lock_location |-> SiteOf(t)[1],
                          guard_location |-> SiteOf(t)[2],
                          inst |-> thr[t].inst,
                          mode |-> thr[t].guard_kind]}
                  /\ WaitingIds(LOCK_INFOS', SiteOf(t)) =
                        WaitingIds(LOCK_INFOS, SiteOf(t)) \ {thr[t].wait_index}
                  /\ thr[t].wait_index \in WaitingIds(LOCK_INFOS, SiteOf(t))
                  /\ ActiveIds(LOCK_INFOS', SiteOf(t)) =
                        ActiveIds(LOCK_INFOS, SiteOf(t)) \cup {thr[t].wait_index}
                  /\ thr[t].wait_index \notin ActiveIds(LOCK_INFOS, SiteOf(t))
                  /\ NumUses(LOCK_INFOS', SiteOf(t)) = NumUses(LOCK_INFOS, SiteOf(t)) + 1]_vars

\* Witness of C22: a snapshot holds an id as waiting which the registry by
\* now holds as the active entry of a LockGuard.
C22_Witness ==
    \E t \in Threads, g \in guards :
        /\ thr[t].pc \in {"snapshot", "snapshot_done"}
        /\ g.lock_location \in DOMAIN thr[t].snap
        /\ g.guard_index \in WaitingIn(thr[t].snap[g.lock_location])
        /\ g.guard_index \in ActiveIds(LOCK_INFOS, <<g.lock_location, g.guard_location>>)
        /\ g.guard_index \notin WaitingIds(LOCK_INFOS, <<g.lock_location, g.guard_location>>)

\* C23: a register call for a Location that is registered does not need
\* exclusive access to the registry: when it has not taken a lock yet and
\* nobody holds LOCK_INFOS for writing, it can go on, whoever holds
\* LOCK_INFOS for reading (guard accounting, other registrations).
C23_ReRegistrationNotExclusive ==
    \A t \in Threads :
        (/\ thr[t].pc = "registering"
         /\ held[t] = {}
         /\ ~register_vacant(LOCK_INFOS, thr[t].location)
         /\ CanRead(held))
            => ENABLED SyncRegisterLock(t)

\* The steps of thread t inside a mutation of a LockInfo: acquisition
\* accounting, wait registration and its cleanup, release accounting.
MutationStep(t) ==
    \/ SyncRead(t)
    \/ SyncLockInfo(t)
    \/ SyncLockGuardNew(t)
    \/ SyncWaitGuardNew(t)
    \/ SyncWaitGuardDrop(t)
    \/ SyncFromWaitGuard(t)
    \/ SyncLockGuardDrop(t)

\* Thread t is inside a mutation and has to wait.
MutationWaits(t) == thr[t].pc \in ReadingPcs /\ ~ENABLED MutationStep(t)

\* Another thread holds the mutex of the LockInfo that t is about to change.
SameLockInfoBusy(t) == \E u \in Threads \ {t} : OpLocation(t) \in held[u]

HalfPcs == {"acquired_half", "wait_acquired_half", "drop_half"}

\* The Location of the LockInfo whose critical section t is in.
HalfLocation(t) ==
    IF thr[t].pc = "drop_half" THEN thr[t].g.lock_location ELSE locks[thr[t].inst].location

\* No lifecycle step is half applied in the LockInfo: in each GuardInfo
\* every use has its wait sample, and is either active or has its hold
\* sample.
WholeSteps(info) ==
    \A gl \in DOMAIN info.known_guards :
        LET gi == info.known_guards[gl] IN
        /\ gi.avg_wait_time.folded = gi.num_uses
        /\ gi.avg_duration.folded + Cardinality(DOMAIN gi.active_uses) = gi.num_uses

\* The registry with its LockInfo at location as it was when t entered the
\* critical section.
AtEntry(t) == [LOCK_INFOS EXCEPT ![HalfLocation(t)] = thr[t].before]

\* C25: the statements of LockGuard::new, of from_wait_guard and of the drop
\* of a LockGuard run under the mutex of the LockInfo from the first to the
\* last and amount to the one step of the lifecycle; lock_snapshots clones a
\* LockInfo only between such sections, so every LockInfo of a snapshot is
\* the LockInfo as it was after some whole number of steps during the call,
\* and shows no use that lacks its wait sample, or that has neither its
\* active entry nor its hold sample.
C25_SnapshotShowsWholeSteps ==
    /\ [](\A t \in Threads :
            /\ thr[t].pc \in HalfPcs => held[t] = {"read", HalfLocation(t)}
            /\ thr[t].pc \in {"snapshot", "snapshot_done"} =>
                  \A location \in DOMAIN thr[t].snap :
                      /\ WholeSteps(thr[t].snap[location])
                      /\ \E r \in thr[t].seen :
                            location \in DOMAIN r /\ r[location] = thr[t].snap[location])
    /\ [][\A t \in Threads :
            /\ \A location \in LockLocs :
                  Cloned(t, location) =>
                      \A u \in Threads : thr[u].pc \in HalfPcs => HalfLocation(u) # location
            /\ (thr[t].pc = "acquired_half" /\ thr'[t].pc = "idle") =>
                  LOCK_INFOS'[HalfLocation(t)] =
                      LockGuard_new(AtEntry(t), HalfLocation(t), thr[t].guard_location,
                                    thr[t].guard_kind, thr[t].guard_idx,
                                    now - thr[t].timestamp, now)[HalfLocation(t)]
            /\ (thr[t].pc = "wait_acquired_half" /\ thr'[t].pc = "idle") =>
                  LOCK_INFOS'[HalfLocation(t)] =
                      from_wait_guard(AtEntry(t), HalfLocation(t), thr[t].guard_location,
                                      thr[t].guard_kind, thr[t].wait_index,
                                      now - thr[t].timestamp, now)[HalfLocation(t)]
            /\ (thr[t].pc = "drop_half" /\ thr'[t].pc = "drop_native") =>
                  LOCK_INFOS'[HalfLocation(t)] =
                      LockGuard_drop(AtEntry(t), HalfLocation(t), thr[t].g.guard_location,
                                     thr[t].g.guard_index, thr[t].timestamp)[HalfLocation(t)]]_vars

\* Witness of C25: lock_snapshots holds the registry and has a LockInfo still
\* to clone in which the drop of a LockGuard has removed the active entry
\* and not yet folded the hold duration.
C25_Witness ==
    \E t, u \in Threads :
        /\ thr[t].pc = "snapshot"
        /\ held[t] = {"read"}
        /\ thr[u].pc = "drop_half"
        /\ HalfLocation(u) \in thr[t].todo
        /\ ~WholeSteps(LOCK_INFOS[HalfLocation(u)])

\* Each lock Location has a single lock instance.
SingleInstance ==
    \A i, j \in 1..Len(locks) : locks[i].location = locks[j].location => i = j

\* The ids of the active uses of a LockInfo whose GuardInfo is of one of
\* the given kinds.
ActiveOfKinds(info, kinds) ==
    UNION {DOMAIN info.known_guards[gl].active_uses :
              gl \in {x \in DOMAIN info.known_guards : info.known_guards[x].kind \in kinds}}

\* C26: when each lock Location has a single lock instance, a LockInfo has at
\* most one active use of kind Lock or Write over all its guard sites and
\* none of kind Read beside one of kind Write, the active uses being guards
\* the native lock counts as held: exclusively for Lock and Write, and at
\* least as many readers as active uses of kind Read.
C26_ExclusivityInStatistics ==
    SingleInstance =>
        \A i \in 1..Len(locks) :
            LET info == LOCK_INFOS[locks[i].location]
                excl == ActiveOfKinds(info, {"Lock", "Write"})
                shared == ActiveOfKinds(info, {"Read"})
            IN /\ Cardinality(excl) <= 1
               /\ excl # {} => shared = {}
               /\ excl # {} => locks[i].writer
               /\ Cardinality(shared) <= locks[i].readers

\* Witness of C26: one lock object per Location; a Write guard is active on
\* the RwLock and a reader of the same lock waits for it.
C26_Witness ==
    /\ SingleInstance
    /\ \E i \in 1..Len(locks) :
          /\ locks[i].kind = "RwLock"
          /\ Cardinality(ActiveOfKinds(LOCK_INFOS[locks[i].location], {"Write"})) = 1
          /\ \E t \in Threads :
                /\ thr[t].pc = "waiting"
                /\ thr[t].inst = i
                /\ thr[t].guard_kind = "Read"
                /\ thr[t].wait_index \in WaitingIn(LOCK_INFOS[locks[i].location])

\* The registry holds an active entry for the LockGuard g.
HasActiveEntry(infos, g) ==
    g.guard_index \in ActiveIds(infos, <<g.lock_location, g.guard_location>>)

\* C27: a LockGuard that is dropped while the registry holds no active entry
\* for it (its id, its guard Location or its lock Location is missing)
\* makes the drop panic; the drop is never skipped.
C27_MissingEntryIsFatal ==
    [][\A g \in guards :
          (g \notin guards' /\ ~HasActiveEntry(LOCK_INFOS, g)) => "unwrap" \in panics']_vars

\* The GuardInfo gi with the three fields a drop writes taken from old.
WithHoldFieldsOf(gi, old) ==
    [gi EXCEPT !.active_uses = old.active_uses,
               !.avg_duration = old.avg_duration,
               !.max_duration = old.max_duration]

\* The registry after differs from the registry before at most in active_uses,
\* avg_duration and max_duration of the GuardInfo at site.
DropFrame(before, after, site) ==
    /\ DOMAIN after = DOMAIN before
    /\ \A l \in DOMAIN before :
          /\ after[l].kind = before[l].kind
          /\ after[l].location = before[l].location
          /\ DOMAIN after[l].known_guards = DOMAIN before[l].known_guards
          /\ \A gl \in DOMAIN before[l].known_guards :
                IF <<l, gl>> = site
                THEN WithHoldFieldsOf(after[l].known_guards[gl], before[l].known_guards[gl])
                         = before[l].known_guards[gl]
                ELSE after[l].known_guards[gl] = before[l].known_guards[gl]

\* C28: the drop of a LockGuard changes only active_uses, avg_duration and
\* max_duration of its own GuardInfo; num_uses, waiting_tasks and the wait
\* statistics of that entry, every other GuardInfo, every other LockInfo and
\* the set of registered Locations stay as they were.
C28_DropChangesOnlyHoldFields ==
    [][\A g \in guards :
          g \notin guards' =>
              DropFrame(LOCK_INFOS, LOCK_INFOS', <<g.lock_location, g.guard_location>>)]_vars

\* Witness of C28: a LockGuard of L1/g1 was dropped (one hold duration is
\* folded, no use is active) while a waiter is registered at the same
\* GuardInfo and a second Location is registered.
C28_Witness ==
    /\ DOMAIN LOCK_INFOS = LockLocs
    /\ "g1" \in DOMAIN LOCK_INFOS["L1"].known_guards
    /\ LET gi == LOCK_INFOS["L1"].known_guards["g1"]
       IN /\ gi.avg_duration.folded = 1
          /\ gi.num_uses = 1
          /\ DOMAIN gi.active_uses = {}
          /\ DOMAIN gi.waiting_tasks # {}

\* C29: active_call_indices is ascending and follows the order of the calls:
\* of two guards active in one GuardInfo, the one with the smaller index did
\* not take the timestamp of its lock()/read()/write() call later than the
\* other one.
C29_IndicesFollowCallOrder ==
    \A l \in DOMAIN LOCK_INFOS :
        \A gl \in DOMAIN LOCK_INFOS[l].known_guards :
            LET indices == active_call_indices(LOCK_INFOS[l].known_guards[gl])
            IN \A i, j \in 1..Len(indices) :
                   i < j =>
                       /\ indices[i] < indices[j]
                       /\ \A g, h \in guards :
                              (g.guard_index = indices[i] /\ h.guard_index = indices[j])
                                  => g.timestamp <= h.timestamp

\* C30: first registration wins. A register call that finds its Location
\* registered leaves that LockInfo as it is: the kind stays that of the first
\* registration whatever kind the call passes, and known_guards is retained
\* with every counter, entry and statistic.
C30_FirstRegistrationWins ==
    [][\A t \in Threads :
          (/\ thr[t].pc = "registering"
           /\ thr'[t].pc # "registering"
           /\ thr[t].location \in DOMAIN LOCK_INFOS)
              => /\ thr[t].location \in DOMAIN LOCK_INFOS'
                 /\ LOCK_INFOS'[thr[t].location] = LOCK_INFOS[thr[t].location]]_vars

\* Witness of C30: two lock objects were built at one Location by
\* constructors of different kinds; the LockInfo has the kind of the first
\* one and holds a guard site with a counted use.
C30_Witness ==
    /\ Len(locks) = 2
    /\ locks[1].location = locks[2].location
    /\ locks[1].kind # locks[2].kind
    /\ LOCK_INFOS[locks[1].location].kind = locks[1].kind
    /\ \E gl \in DOMAIN LOCK_INFOS[locks[1].location].known_guards :
          LOCK_INFOS[locks[1].location].known_guards[gl].num_uses >= 1

\* C31: after clear_lock_infos an acquisition on a lock whose Location is not
\* registered returns no guard. LockGuard::new after a successful native try
\* reaches unreachable!(), the start of a contended wait reaches
\* unreachable!() in WaitGuard::new, and no step creates a LockGuard or a
\* waiter for a Location that is missing from the registry.
C31_UnregisteredAcquisitionAborts ==
    [][/\ \A t \in Threads :
             (/\ thr[t].pc = "acquired"
              /\ thr'[t].pc # "acquired"
              /\ locks[thr[t].inst].location \notin DOMAIN LOCK_INFOS)
                 => (guards' = guards /\ "unreachable" \in panics')
       /\ \A t \in Threads :
             (thr[t].pc = "idle" /\ thr'[t].pc = "waiting")
                 => locks[thr'[t].inst].location \in DOMAIN LOCK_INFOS
       /\ (/\ GUARD_COUNTER' # GUARD_COUNTER
           /\ guards' = guards
           /\ \A t \in Threads : ~(thr[t].pc = "idle" /\ thr'[t].pc = "waiting"))
              => "unreachable" \in panics'
       /\ \A g \in guards' \ guards : g.lock_location \in DOMAIN LOCK_INFOS]_vars

\* Witness of C31: a lock built before the reset has lost its Location in the
\* registry, an acquisition on it has hit unreachable!(), and no guard exists.
C31_Witness ==
    /\ "unreachable" \in panics
    /\ guards = {}
    /\ \E i \in 1..Len(locks) : locks[i].location \notin DOMAIN LOCK_INFOS

\* Thread t starts a contended wait in this step.
WaitStarts(t) == thr[t].pc = "idle" /\ thr'[t].pc = "waiting"

\* The wait of thread t ends in this step without a LockGuard: the future was
\* dropped, or the native acquisition returned the poison error.
WaitGivenUp(t) == thr[t].pc = "waiting" /\ thr'[t].pc = "idle"

\* C32: a contended attempt from a guard site never used before creates the
\* GuardInfo of the site when the wait starts; when the wait is cancelled or
\* fails the GuardInfo stays in known_guards, and one that was never used and
\* has no other waiter is left with num_uses = 0, no active use, no waiting
\* entry and zero statistics; known_guards and the registered Locations never
\* shrink.
C32_UnusedGuardInfoStays ==
    [][/\ \A t \in Threads :
             WaitStarts(t) =>
                 LET l == locks[thr'[t].inst].location
                     gl == thr'[t].guard_location
                 IN /\ gl \in DOMAIN LOCK_INFOS'[l].known_guards
                    /\ gl \notin DOMAIN LOCK_INFOS[l].known_guards =>
                           LOCK_INFOS'[l].known_guards[gl] =
                               [GuardInfo_new(KindAt(gl), gl) EXCEPT
                                   !.waiting_tasks = MapInsert(EmptyMap, thr'[t].wait_index, now)]
       /\ \A t \in Threads :
             WaitGivenUp(t) =>
                 LET l == locks[thr[t].inst].location
                     gl == thr[t].guard_location
                     gi == LOCK_INFOS[l].known_guards[gl]
                 IN /\ gl \in DOMAIN LOCK_INFOS'[l].known_guards
                    /\ (gi.num_uses = 0 /\ DOMAIN gi.waiting_tasks = {thr[t].wait_index}) =>
                           LOCK_INFOS'[l].known_guards[gl] = GuardInfo_new(KindAt(gl), gl)
       /\ DOMAIN LOCK_INFOS \subseteq DOMAIN LOCK_INFOS'
       /\ \A l \in DOMAIN LOCK_INFOS :
             DOMAIN LOCK_INFOS[l].known_guards \subseteq DOMAIN LOCK_INFOS'[l].known_guards]_vars

\* Witness of C32: no thread waits and a guard site sits in known_guards as
\* it was created: its only attempt was a wait that was given up.
C32_Witness ==
    /\ \A t \in Threads : thr[t].pc = "idle"
    /\ \E l \in DOMAIN LOCK_INFOS :
          \E gl \in DOMAIN LOCK_INFOS[l].known_guards :
              LOCK_INFOS[l].known_guards[gl] = GuardInfo_new(KindAt(gl), gl)

====
